---- MODULE Spec2Model ----
(***************************************************************************)
(* Turnstile proxy server: the request gate (Server.handleProxy), the      *)
(* pending-request cache, the session token check, template resolution and *)
(* the replay of captured requests.                                        *)
(*                                                                         *)
(* One action, HandleProxy, models one whole execution of the handler on   *)
(* one inbound request together with the answers the environment gives on  *)
(* that execution (verification authority, upstream, audit store, body     *)
(* read).  What the handler did is recorded in `last`.  The step-by-step   *)
(* specifications (SpecWorkers, SpecHung) run the same handler as          *)
(* concurrent goroutines, one cache access or one wait per step.           *)
(***************************************************************************)
EXTENDS Integers, Sequences, FiniteSets, TLC

VARIABLES
    now,          \* wall clock, in ticks
    requestCache, \* Server.requestCache: id -> item (go-cache)
    nextSweep,    \* next firing time of the go-cache janitor
    templates,    \* Server.templates: the set of registered template names
    issued,       \* identifiers requestid.New has returned so far
    advances,     \* number of clock steps taken (bounded)
    last,         \* the last execution of handleProxy: input and outcome
    workers,      \* the goroutines: request handlers in progress and the janitor
    puts,         \* history: the object handed to requestCache.Set under each id
    sent          \* history: the requests sent upstream in replays of each id

vars == <<now, requestCache, nextSweep, templates, issued, advances, last, workers, puts, sent>>

----------------------------------------------------------------------------
(* Bounds of the model *)

\* clock resolution: ticks in one second (time.Now has sub-second resolution,
\* Unix() truncates to seconds)
TicksPerSecond == 2
\* number of clock steps in one behaviour
MaxAdvances == 2

----------------------------------------------------------------------------
(* Program constants *)

Second == TicksPerSecond
Minute == 60 * Second
Hour == 60 * Minute

\* cache.New(5*time.Minute, 10*time.Minute)
DefaultExpiration == 5 * Minute
CleanupInterval == 10 * Minute
\* "exp": time.Now().Add(24 * time.Hour).Unix()
TokenLifetimeSeconds == 24 * 3600
\* c.SetCookie(cookieName, tokenString, 3600*24, "/", "", true, true)
CookieMaxAge == 3600 * 24

cookieName == "tps-jwt"
jwtSigningKey == "signing-key"
siteKey == "1x00000000000000000000AA"
secretKey == "1x0000000000000000000000000000000AA"
\* Server.proxyTarget (SetProxyTarget)
proxyTarget == [Scheme |-> "http", Host |-> "backend.x"]

StatusOK == 200
StatusUnauthorized == 401
StatusInternalServerError == 500
StatusBadGateway == 502

----------------------------------------------------------------------------
(* Time *)

\* time.Time.Unix(): whole seconds
Unix(t) == t \div TicksPerSecond

\* the clock reading at which the model starts: one token lifetime and ten
\* seconds after second 0, so that a token issued at second 0 has expired
StartTime == (TokenLifetimeSeconds + 10) * Second

AdvanceSteps == {1, DefaultExpiration}

----------------------------------------------------------------------------
(* Session tokens (the tps-jwt cookie) *)

HMACAlgs == {"HS256", "HS384", "HS512"}

NoCookie ==
    [kind |-> "none", alg |-> "", key |-> "", iss |-> "", aud |-> "",
     iat |-> 0, nbf |-> 0, exp |-> 0]

GarbageCookie == [NoCookie EXCEPT !.kind = "garbage"]

\* jwt.NewWithClaims(jwt.SigningMethodHS256, MapClaims{iss, aud, iat, exp, nbf})
\* followed by SignedString(key), at clock reading t
NewToken_HourLifetime(key, t) ==
    [kind |-> "jwt", alg |-> "HS256", key |-> key, iss |-> "tps", aud |-> "caddy",
     iat |-> Unix(t), nbf |-> Unix(t), exp |-> Unix(t) + 3600]

NewToken(key, t) ==
    [kind |-> "jwt", alg |-> "HS256", key |-> key, iss |-> "tps", aud |-> "caddy",
     iat |-> Unix(t), nbf |-> Unix(t), exp |-> Unix(t) + TokenLifetimeSeconds]

\* a token issued when the model starts, and one issued a lifetime earlier
FreshToken == NewToken(jwtSigningKey, StartTime)
OldToken == NewToken(jwtSigningKey, 0)
WrongKeyToken == NewToken("other-key", StartTime)
WrongAlgToken == [FreshToken EXCEPT !.alg = "RS256"]
\* a token whose signature part was altered: it verifies under no key
TamperedToken == [FreshToken EXCEPT !.key = "tampered"]
\* a token that expires DefaultExpiration after the model starts, and one that
\* becomes valid then
EdgeToken == NewToken(jwtSigningKey, StartTime + DefaultExpiration - TokenLifetimeSeconds * Second)
FutureToken == NewToken(jwtSigningKey, StartTime + DefaultExpiration)

Cookies == {NoCookie, GarbageCookie, FreshToken, OldToken, WrongKeyToken, WrongAlgToken}

\* the cookies of the requests that exercise the session check
SessionCookies == Cookies \cup {TamperedToken, EdgeToken, FutureToken}

\* The key function handed to jwt.Parse: only HMAC methods get the key.
KeyFuncAccepts_AnyAlg(tok) == TRUE

KeyFuncAccepts_RSAOnly(tok) == tok.alg \in {"RS256", "RS384", "RS512"}

KeyFuncAccepts(tok) == tok.alg \in HMACAlgs

\* jwt.Parse(cookie, keyFunc) returns no error: the cookie is a well-formed
\* token, the key function accepts its method, the signature verifies under
\* s.jwtSigningKey, and the registered time claims hold at the current time
\* (expired when now >= exp, not yet valid when now < nbf).
JwtParseOK_NoExpiry(tok, t) ==
    /\ tok.kind = "jwt"
    /\ KeyFuncAccepts(tok)
    /\ tok.key = jwtSigningKey

\* with the issuer and the audience compared with the values written at issuance
JwtParseOK_ChecksIssuerAndAudience(tok, t) ==
    /\ tok.kind = "jwt"
    /\ KeyFuncAccepts(tok)
    /\ tok.key = jwtSigningKey
    /\ t < tok.exp * Second
    /\ t >= tok.nbf * Second
    /\ tok.iss = "tps"
    /\ tok.aud = "caddy"

JwtParseOK(tok, t) ==
    /\ tok.kind = "jwt"
    /\ KeyFuncAccepts(tok)
    /\ tok.key = jwtSigningKey
    /\ t < tok.exp * Second
    /\ t >= tok.nbf * Second

\* c.Cookie(cookieName) returned a cookie and jwt.Parse accepted it
HasValidSession(req, t) ==
    /\ req.cookie.kind # "none"
    /\ JwtParseOK(req.cookie, t)

----------------------------------------------------------------------------
(* Requests *)

\* the identifiers a request can name; requestid.New hands out those of
\* FreshIDs in one behaviour, the others stay unknown to the cache
IDs == {"id1", "id2"}
FreshIDs == {"id1"}

\* request bodies, as sequences of key/value pairs
EmptyBody == <<>>
PayloadBody == << <<"a", "1">> >>
ResponseOnlyBody == << <<"cf-turnstile-response", "proof">> >>
SubmissionBody(id) == << <<"cf-turnstile-response", "proof">>, <<"request_id", id>> >>

\* (method, content type, body) of the inbound requests
Forms ==
    { [method |-> "GET", contentType |-> "", body |-> EmptyBody],
      [method |-> "POST", contentType |-> "form", body |-> PayloadBody],
      [method |-> "POST", contentType |-> "form", body |-> ResponseOnlyBody],
      [method |-> "POST", contentType |-> "json", body |-> PayloadBody],
      [method |-> "PUT", contentType |-> "form", body |-> SubmissionBody("id1")] }
    \cup { [method |-> "POST", contentType |-> "form", body |-> SubmissionBody(id)] : id \in IDs }

\* request targets: an origin-form target (no host in the URL) and an
\* absolute-form target
URLs ==
    { [Scheme |-> "", Host |-> "", Path |-> <<"a", "b">>, RawQuery |-> "q=1"],
      [Scheme |-> "http", Host |-> "front.x", Path |-> <<"a", "b", "c">>, RawQuery |-> ""] }

Requests ==
    { [method |-> f.method, contentType |-> f.contentType, body |-> f.body,
       cookie |-> c, url |-> u, host |-> "front.x", connection |-> "", forwardedFor |-> <<>>] :
        f \in Forms, c \in Cookies, u \in URLs }

\* the requests that exercise the session check: every cookie on a plain GET
\* and on a verification submission
SessionRequests ==
    { [method |-> f.method, contentType |-> f.contentType, body |-> f.body,
       cookie |-> c, url |-> u, host |-> "front.x", connection |-> "", forwardedFor |-> <<>>] :
        f \in { [method |-> "GET", contentType |-> "", body |-> EmptyBody],
                [method |-> "POST", contentType |-> "form", body |-> SubmissionBody("id1")] },
        c \in SessionCookies,
        u \in { [Scheme |-> "http", Host |-> "front.x", Path |-> <<"a", "b", "c">>, RawQuery |-> ""] } }

\* the requests that exercise template resolution: a first contact and a
\* verification submission, sent to several hosts and paths (a path is the
\* sequence of the segments after its leading slash, as the client wrote them)
TemplateRequests ==
    { [method |-> f.method, contentType |-> f.contentType, body |-> f.body,
       cookie |-> NoCookie, url |-> [Scheme |-> "http", Host |-> h, Path |-> p, RawQuery |-> ""],
       host |-> h, connection |-> "", forwardedFor |-> <<>>] :
        f \in { [method |-> "GET", contentType |-> "", body |-> EmptyBody],
                [method |-> "POST", contentType |-> "form", body |-> SubmissionBody("id2")] },
        h \in {"front.x", "other.x"},
        p \in { <<>>, <<"a">>, <<"a", "b", "c">>, <<"x", "y">>,
                <<"a", "", "b", "">>, <<"a", "..", "b", ".", "a">> } }

\* the requests that exercise the audit log: a first contact and a verification
\* submission, without a cookie, with a valid and with an expired one
AuditRequests ==
    { [method |-> f.method, contentType |-> f.contentType, body |-> f.body,
       cookie |-> c, url |-> u, host |-> "front.x", connection |-> "", forwardedFor |-> <<>>] :
        f \in { [method |-> "GET", contentType |-> "", body |-> EmptyBody],
                [method |-> "POST", contentType |-> "form", body |-> SubmissionBody("id1")] },
        c \in {NoCookie, FreshToken, OldToken},
        u \in { [Scheme |-> "", Host |-> "", Path |-> <<"a", "b">>, RawQuery |-> "q=1"] } }

\* the requests that exercise the replay: a first contact, a verification
\* submission and a request with a valid session, with and without a
\* Connection header and an X-Forwarded-For list
ReplayRequests ==
    { [method |-> f.method, contentType |-> f.contentType, body |-> f.body,
       cookie |-> c, url |-> [Scheme |-> "", Host |-> "", Path |-> <<"a", "b">>, RawQuery |-> "q=1"],
       host |-> "front.x", connection |-> k, forwardedFor |-> x] :
        f \in { [method |-> "GET", contentType |-> "", body |-> EmptyBody],
                [method |-> "POST", contentType |-> "json", body |-> PayloadBody],
                [method |-> "POST", contentType |-> "form", body |-> SubmissionBody("id1")] },
        c \in {NoCookie, FreshToken},
        k \in {"", "keep-alive"},
        x \in {<<>>, <<"203.0.113.9">>} }

\* the requests that exercise the replay target: first contacts on an ordinary
\* path and on paths that begin with two and with three slashes, and
\* verification submissions posted to the captured path and to another one
TargetRequests ==
    { [method |-> "GET", contentType |-> "", body |-> EmptyBody, cookie |-> NoCookie,
       url |-> [Scheme |-> "", Host |-> "", Path |-> p, RawQuery |-> "q=1"],
       host |-> "front.x", connection |-> "", forwardedFor |-> <<>>] :
        p \in { <<"a", "b">>, <<"", "x", "y">>, <<"", "", "x">> } }
    \cup
    { [method |-> "POST", contentType |-> "form", body |-> SubmissionBody("id1"),
       cookie |-> NoCookie,
       url |-> [Scheme |-> "", Host |-> "", Path |-> p, RawQuery |-> ""],
       host |-> "front.x", connection |-> "", forwardedFor |-> <<>>] :
        p \in { <<"a", "b">>, <<"other">> } }

\* the (iss, aud) pairs and the algorithms of the tokens that exercise what the
\* session check reads: the pair written at issuance, other values, and none
ClaimPairs ==
    { <<"tps", "caddy">>, <<"evil", "caddy">>, <<"tps", "other">>, <<"evil", "other">>,
      <<"", "">> }
ClaimAlgs == HMACAlgs \cup {"RS256"}

\* tokens that differ from a token of the server in issuer, audience, algorithm,
\* key and time claims, and one whose iat lies a day ahead
ClaimsCookies ==
    { [b EXCEPT !.iss = p[1], !.aud = p[2], !.alg = a] :
        b \in {FreshToken, OldToken, FutureToken, WrongKeyToken}, p \in ClaimPairs,
        a \in ClaimAlgs }
    \cup { NoCookie, GarbageCookie,
           [FreshToken EXCEPT !.iat = Unix(StartTime) + TokenLifetimeSeconds] }

\* the requests that exercise what the session check reads: a plain GET with
\* each of these cookies
ClaimsRequests ==
    { [method |-> "GET", contentType |-> "", body |-> EmptyBody, cookie |-> c,
       url |-> [Scheme |-> "", Host |-> "", Path |-> <<"a", "b">>, RawQuery |-> "q=1"],
       host |-> "front.x", connection |-> "", forwardedFor |-> <<>>] : c \in ClaimsCookies }

\* the requests that exercise the buffering of the body: unauthenticated
\* requests that are no verification submission, with an empty body, a body
\* c.PostForm does not parse and bodies it does, and a verification submission
BufferRequests ==
    { [method |-> f.method, contentType |-> f.contentType, body |-> f.body,
       cookie |-> c, url |-> [Scheme |-> "", Host |-> "", Path |-> <<"a", "b">>, RawQuery |-> "q=1"],
       host |-> "front.x", connection |-> "", forwardedFor |-> <<>>] :
        f \in { [method |-> "GET", contentType |-> "", body |-> EmptyBody],
                [method |-> "POST", contentType |-> "json", body |-> PayloadBody],
                [method |-> "POST", contentType |-> "form", body |-> PayloadBody],
                [method |-> "PUT", contentType |-> "form", body |-> SubmissionBody("id1")],
                [method |-> "POST", contentType |-> "form", body |-> SubmissionBody("id1")] },
        c \in {NoCookie, OldToken} }

\* http.Request.Header of an inbound request: two end-to-end headers, the
\* hop-by-hop Connection header, and the X-Forwarded-For list
Header(req) ==
    [ContentType |-> req.contentType, Cookie |-> req.cookie,
     Connection |-> req.connection, XForwardedFor |-> req.forwardedFor]

RECURSIVE FirstValue(_, _)
\* url.Values.Get: the first value of the key, "" when absent
FirstValue(pairs, key) ==
    IF pairs = <<>> THEN ""
    ELSE IF Head(pairs)[1] = key THEN Head(pairs)[2]
    ELSE FirstValue(Tail(pairs), key)

\* gin's c.PostForm runs Request.ParseMultipartForm, which reads the whole body
\* of a POST, PUT or PATCH request with a form-encoded body, and of any request
\* with a multipart body
ParsesBody(req) ==
    \/ req.method \in {"POST", "PUT", "PATCH"} /\ req.contentType = "form"
    \/ req.contentType = "multipart"

\* c.PostForm(key)
PostForm(req, key) == IF ParsesBody(req) THEN FirstValue(req.body, key) ELSE ""

\* what io.ReadAll(c.Request.Body) still finds after the c.PostForm calls
RemainingBody_Buffered(req) == req.body

RemainingBody(req) == IF ParsesBody(req) THEN EmptyBody ELSE req.body

\* c.Request.Method == "POST" && turnstileResponse != "" && requestID != ""
IsVerification_AnyMethod(req) ==
    /\ PostForm(req, "cf-turnstile-response") # ""
    /\ PostForm(req, "request_id") # ""

IsVerification(req) ==
    /\ req.method = "POST"
    /\ PostForm(req, "cf-turnstile-response") # ""
    /\ PostForm(req, "request_id") # ""

----------------------------------------------------------------------------
(* The pending-request cache (go-cache) *)

NoURL == [Scheme |-> "", Host |-> "", Path |-> <<>>, RawQuery |-> ""]

\* type cachedRequest struct { Method; Body; Headers; URL }
NoRequest ==
    [Method |-> "", Body |-> EmptyBody,
     Headers |-> Header([contentType |-> "", cookie |-> NoCookie, connection |-> "",
                         forwardedFor |-> <<>>]),
     URL |-> NoURL]

NoItem == [present |-> FALSE, Object |-> NoRequest, Expiration |-> 0]

\* &cachedRequest{Method: c.Request.Method, Body: body, Headers: c.Request.Header, URL: c.Request.URL}
CachedRequest(req, body) ==
    [Method |-> req.method, Body |-> body, Headers |-> Header(req), URL |-> req.url]

\* s.requestCache.Set(k, x, cache.DefaultExpiration)
CacheSet_Dropped(c, k, x, t) == c

CacheSet(c, k, x, t) ==
    [c EXCEPT ![k] = [present |-> TRUE, Object |-> x, Expiration |-> t + DefaultExpiration]]

\* s.requestCache.Get(k): found unless absent or past its expiration
\* (go-cache: missing when time.Now().UnixNano() > item.Expiration)
CacheGet_AnyItem(c, k, t) ==
    [ok |-> TRUE, Object |-> c[k].Object]

CacheGet_MissingAtDeadline(c, k, t) ==
    IF c[k].present /\ t < c[k].Expiration
    THEN [ok |-> TRUE, Object |-> c[k].Object]
    ELSE [ok |-> FALSE, Object |-> NoRequest]

CacheGet(c, k, t) ==
    IF c[k].present /\ ~(t > c[k].Expiration)
    THEN [ok |-> TRUE, Object |-> c[k].Object]
    ELSE [ok |-> FALSE, Object |-> NoRequest]

\* the janitor's DeleteExpired
DeleteExpired(c, t) ==
    [k \in DOMAIN c |-> IF c[k].present /\ t > c[k].Expiration THEN NoItem ELSE c[k]]

\* requestid.New(): 16 bytes of crypto/rand, hex encoded; an identifier that
\* was not handed out before
NewRequestIDs(used) == FreshIDs \ used

----------------------------------------------------------------------------
(* Template resolution *)

\* s.templates after LoadCoreTemplates and LoadCustomTemplates; a name is the
\* sequence of its path segments
LoadedTemplates ==
    { <<"core", "challenge">>, <<"core", "failed">>,
      <<"front.x", "challenge">>, <<"front.x", "failed">>,
      <<"front.x", "a", "b", "challenge">> }

\* filepath.Join(host + "/" + strings.Join(parts, "/"), shortname); an empty
\* host leaves a leading slash, kept as an empty first segment
TemplateName(host, parts, shortname) == <<host>> \o parts \o <<shortname>>

RECURSIVE getTemplateFrom(_, _, _, _, _)
\* the loop of getTemplate: for i := len(parts); i >= 0; i--
getTemplateFrom(tmpls, host, parts, i, shortname) ==
    IF i < 0 THEN <<"core", shortname>>
    ELSE IF TemplateName(host, SubSeq(parts, 1, i), shortname) \in tmpls
         THEN TemplateName(host, SubSeq(parts, 1, i), shortname)
         ELSE getTemplateFrom(tmpls, host, parts, i - 1, shortname)

RECURSIVE CleanFrom(_, _)
\* filepath.Clean on a rooted path, segment by segment: empty and "." segments
\* are dropped, ".." drops the segment before it (and itself at the root)
CleanFrom(raw, acc) ==
    IF raw = <<>> THEN acc
    ELSE IF Head(raw) \in {"", "."} THEN CleanFrom(Tail(raw), acc)
    ELSE IF Head(raw) = ".."
         THEN CleanFrom(Tail(raw), IF acc = <<>> THEN acc ELSE SubSeq(acc, 1, Len(acc) - 1))
         ELSE CleanFrom(Tail(raw), Append(acc, Head(raw)))

\* path = filepath.Clean(path), the leading slash removed, strings.Split(path, "/")
Clean(path) == CleanFrom(path, <<>>)

\* the loop of getTemplate started at the shortest prefix instead of the longest
getTemplate_ShortestPrefix(tmpls, url, shortname) ==
    LET parts == Clean(url.Path)
        hits == { i \in 0..Len(parts) : TemplateName(url.Host, SubSeq(parts, 1, i), shortname) \in tmpls }
    IN  IF hits = {} THEN <<"core", shortname>>
        ELSE TemplateName(url.Host, SubSeq(parts, 1, CHOOSE i \in hits : \A j \in hits : i <= j),
                          shortname)

\* s.getTemplate(r, shortname), with host = r.URL.Hostname(), path = r.URL.Path
getTemplate(tmpls, url, shortname) ==
    getTemplateFrom(tmpls, url.Host, Clean(url.Path), Len(Clean(url.Path)), shortname)

\* template directories an operator may have set up: the core templates and
\* overrides for hosts and paths
Registries ==
    { {<<"core", "challenge">>, <<"core", "failed">>} \cup o :
        o \in { {},
                {<<"front.x", "challenge">>},
                {<<"front.x", "a", "challenge">>, <<"front.x", "a", "b", "challenge">>},
                {<<"front.x", "challenge">>, <<"front.x", "a", "b", "failed">>,
                 <<"other.x", "a", "challenge">>},
                {<<"front.x", "failed">>, <<"front.x", "a", "b", "c", "challenge">>,
                 <<"front.x", "b", "challenge">>} } }

----------------------------------------------------------------------------
(* Replay *)

\* the upstream application: its answer is a function of the request it gets
UpstreamAnswer(outreq) ==
    [status |-> IF outreq.Method = "GET" THEN 200 ELSE 201,
     header |-> [ContentType |-> "text/html", Connection |-> ""],
     body |-> <<"served", outreq.Method, outreq.URL.Path, outreq.URL.RawQuery, outreq.Body>>]

\* the same answer from an upstream that closes its connection after it
UpstreamAnswerClosing(outreq) == [UpstreamAnswer(outreq) EXCEPT !.header.Connection = "close"]

NoAnswer == [status |-> 0, header |-> [ContentType |-> "", Connection |-> ""], body |-> <<>>]

\* the address of the client's connection (http.Request.RemoteAddr), as host
\* and port
ClientAddr == <<"198.51.100.7", "40000">>

\* the director of replayRequest on the proxy's copy of the request
Director_DropsQuery(r) ==
    [Method |-> r.Method,
     URL |-> [r.URL EXCEPT !.Scheme = proxyTarget.Scheme, !.Host = proxyTarget.Host,
                           !.RawQuery = ""],
     Host |-> proxyTarget.Host,
     Header |-> r.Header,
     Body |-> r.Body]

Director(r) ==
    [Method |-> r.Method,
     URL |-> [r.URL EXCEPT !.Scheme = proxyTarget.Scheme, !.Host = proxyTarget.Host],
     Host |-> proxyTarget.Host,
     Header |-> r.Header,
     Body |-> r.Body]

\* httputil's removeHopByHopHeaders
RemoveHopByHop(h) == [h EXCEPT !.Connection = ""]

\* what httputil.ReverseProxy.ServeHTTP sends for request r: its copy of r
\* after the director, without the hop-by-hop headers, and with the client's
\* address appended to X-Forwarded-For when r has a remote address
OutRequest(r) ==
    LET outreq == Director(r)
        cleaned == RemoveHopByHop(outreq.Header)
    IN  [outreq EXCEPT !.Header =
            IF r.RemoteAddr # <<>>
            THEN [cleaned EXCEPT !.XForwardedFor = Append(@, r.RemoteAddr[1])]
            ELSE cleaned]

\* c.Request as handed to replayRequest on the valid-session path
InboundRequest(req) ==
    [Method |-> req.method, URL |-> req.url, Host |-> req.host,
     Header |-> Header(req), Body |-> req.body, RemoteAddr |-> ClientAddr]

\* The text of a URL, up to its query, is a sequence of tokens: the scheme with
\* its colon, a slash, or a run of other characters; an empty path segment
\* leaves no token between its two slashes.
Slash == <<"/">>
SegText(seg) == IF seg = "" THEN <<>> ELSE << <<"seg", seg>> >>

RECURSIVE JoinSegments(_)
\* strings.Join(segments, "/")
JoinSegments(segs) ==
    IF segs = <<>> THEN <<>>
    ELSE IF Len(segs) = 1 THEN SegText(segs[1])
    ELSE SegText(Head(segs)) \o <<Slash>> \o JoinSegments(Tail(segs))

RECURSIVE SplitSegments(_, _, _)
\* strings.Split(text, "/"), cur being the segment read so far
SplitSegments(text, cur, acc) ==
    IF text = <<>> THEN Append(acc, cur)
    ELSE IF Head(text) = Slash THEN SplitSegments(Tail(text), "", Append(acc, cur))
    ELSE SplitSegments(Tail(text), Head(text)[2], acc)

\* URL.String(): the scheme, then "//" and the host when the URL has a scheme
\* or a host, then the path as it is, then the query
URLString(u) ==
    [text |-> (IF u.Scheme # "" THEN << <<"scheme", u.Scheme>> >> ELSE <<>>)
              \o (IF u.Scheme # "" \/ u.Host # "" THEN <<Slash, Slash>> \o SegText(u.Host) ELSE <<>>)
              \o <<Slash>> \o JoinSegments(u.Path),
     query |-> u.RawQuery]

\* url.Parse: after the scheme, a text that starts with "//" (and, without a
\* scheme, not with "///") has an authority up to the next slash; what follows
\* is the path
ParseURL(s) ==
    LET hasScheme == s.text # <<>> /\ Head(s.text)[1] = "scheme"
        rest == IF hasScheme THEN Tail(s.text) ELSE s.text
        twoSlashes == Len(rest) >= 2 /\ rest[1] = Slash /\ rest[2] = Slash
        threeSlashes == twoSlashes /\ Len(rest) >= 3 /\ rest[3] = Slash
        authority == twoSlashes /\ (hasScheme \/ ~threeSlashes)
        after == SubSeq(rest, 3, Len(rest))
        hasHost == authority /\ after # <<>> /\ Head(after) # Slash
        pathText == IF ~authority THEN rest ELSE IF hasHost THEN Tail(after) ELSE after
        segs == IF pathText = <<>> THEN <<>> ELSE SplitSegments(Tail(pathText), "", <<>>)
    IN  [Scheme |-> IF hasScheme THEN Head(s.text)[2] ELSE "",
         Host |-> IF hasHost THEN Head(after)[2] ELSE "",
         Path |-> IF segs = <<"">> THEN <<>> ELSE segs,
         RawQuery |-> s.query]

\* http.NewRequest(cachedReq.Method, cachedReq.URL.String(), bytes.NewReader(cachedReq.Body))
\* followed by req.Header = cachedReq.Headers
RebuiltRequest_FromSubmission(cachedReq, req) == InboundRequest(req)

RebuiltRequest(cachedReq, req) ==
    [Method |-> cachedReq.Method, URL |-> ParseURL(URLString(cachedReq.URL)),
     Host |-> ParseURL(URLString(cachedReq.URL)).Host, Header |-> cachedReq.Headers,
     Body |-> cachedReq.Body,
     RemoteAddr |-> <<>>]

----------------------------------------------------------------------------
(* The environment's answers to one execution of the handler *)

\* the verification authority's answer to client.PostForm(verifyURL, ...): a
\* transport error, or an HTTP status with a body
VerifyOutcomes ==
    { [transport |-> "error", status |-> 0, body |-> ""] }
    \cup { [transport |-> "ok", status |-> st, body |-> b] :
             st \in {200, 500}, b \in {"garbage", "success_true", "success_false"} }

Upstreams == {"ok", "down"}

NoEnv ==
    [verify |-> [transport |-> "error", status |-> 0, body |-> ""],
     upstream |-> "ok", readErr |-> FALSE, id |-> "", dbErr |-> FALSE]

\* how handleProxy reads the authority's answer: the error of client.PostForm,
\* then the error of json.Decode, then verifyResp.Success; resp.StatusCode is
\* not read
VerifyResult_ErrorsAsFailure(v) ==
    IF v.transport = "ok" /\ v.body = "success_true" THEN "success" ELSE "failure"

VerifyResult_Inverted(v) ==
    IF v.transport = "error" THEN "post_error"
    ELSE IF v.body = "garbage" THEN "decode_error"
    ELSE IF v.body = "success_true" THEN "failure"
    ELSE "success"

VerifyResult(v) ==
    IF v.transport = "error" THEN "post_error"
    ELSE IF v.body = "garbage" THEN "decode_error"
    ELSE IF v.body = "success_true" THEN "success"
    ELSE "failure"

----------------------------------------------------------------------------
(* Responses *)

NoSetCookie ==
    [name |-> "", value |-> NoCookie, maxAge |-> 0, path |-> "", domain |-> "",
     secure |-> FALSE, httpOnly |-> FALSE]

\* c.SetCookie(cookieName, tokenString, 3600*24, "/", "", true, true)
SessionCookie_Readable(tokenString) ==
    [name |-> cookieName, value |-> tokenString, maxAge |-> CookieMaxAge, path |-> "/",
     domain |-> "", secure |-> TRUE, httpOnly |-> FALSE]

SessionCookie(tokenString) ==
    [name |-> cookieName, value |-> tokenString, maxAge |-> CookieMaxAge, path |-> "/",
     domain |-> "", secure |-> TRUE, httpOnly |-> TRUE]

NoData == [SiteKey |-> "", RequestID |-> "", PostAction |-> <<>>]

\* db.RequestLog
RequestLog_Swapped(req, t, hadValidToken, wasPresentedChallenge, challengeSucceeded) ==
    [Timestamp |-> t, URL |-> URLString(req.url), HadValidToken |-> wasPresentedChallenge,
     WasPresentedChallenge |-> hadValidToken,
     ChallengeSucceeded |-> challengeSucceeded]

RequestLog(req, t, hadValidToken, wasPresentedChallenge, challengeSucceeded) ==
    [Timestamp |-> t, URL |-> URLString(req.url), HadValidToken |-> hadValidToken,
     WasPresentedChallenge |-> wasPresentedChallenge,
     ChallengeSucceeded |-> challengeSucceeded]

\* what one execution of handleProxy did: the response written to the client,
\* the outbound calls made, the audit records written and the cache it leaves
NoOutcome(cache) ==
    [path |-> "none", status |-> 0, page |-> <<>>, data |-> NoData, text |-> "",
     setCookie |-> NoSetCookie, forwarded |-> <<>>, answer |-> NoAnswer,
     verifyCalls |-> <<>>, audit |-> <<>>, stored |-> <<>>, errorLog |-> <<>>,
     newID |-> "", location |-> "", cache |-> cache]

\* c.String(code, text)
String(out, code, text) == [out EXCEPT !.status = code, !.text = text]

\* c.HTML(code, name, data)
HTML(out, code, name, data) == [out EXCEPT !.status = code, !.page = name, !.data = data]

\* s.db.LogRequest(log): the INSERT into request_logs; its error is written to
\* the local log and returned, and handleProxy drops the returned error
LogRequest_FailsRequest(out, log, dbErr) ==
    IF dbErr
    THEN [out EXCEPT !.audit = Append(@, log),
                     !.errorLog = Append(@, "Could not log request to database"),
                     !.text = "Could not log request to database"]
    ELSE [out EXCEPT !.audit = Append(@, log), !.stored = Append(@, log)]

LogRequest(out, log, dbErr) ==
    IF dbErr
    THEN [out EXCEPT !.audit = Append(@, log),
                     !.errorLog = Append(@, "Could not log request to database")]
    ELSE [out EXCEPT !.audit = Append(@, log), !.stored = Append(@, log)]

\* s.replayRequest(c, req): the reverse proxy sends its rewritten copy of req
\* to the proxy target and copies the answer to the client; a failed round
\* trip is answered with 502
replayRequest_NotSent(out, r, upstream) == String(out, StatusBadGateway, "")

\* with a failed round trip tried a second time
replayRequest_RetryOnce(out, r, upstream) ==
    IF upstream = "down"
    THEN [out EXCEPT !.forwarded = Append(Append(@, OutRequest(r)), OutRequest(r)),
                     !.status = UpstreamAnswer(OutRequest(r)).status,
                     !.answer = [UpstreamAnswer(OutRequest(r)) EXCEPT !.header = RemoveHopByHop(@)]]
    ELSE [out EXCEPT !.forwarded = Append(@, OutRequest(r)),
                     !.status = UpstreamAnswer(OutRequest(r)).status,
                     !.answer = [UpstreamAnswer(OutRequest(r)) EXCEPT !.header = RemoveHopByHop(@)]]

replayRequest(out, r, upstream) ==
    LET res == IF upstream = "closing" THEN UpstreamAnswerClosing(OutRequest(r))
               ELSE UpstreamAnswer(OutRequest(r))
    IN  IF upstream = "down"
        THEN [out EXCEPT !.forwarded = Append(@, OutRequest(r)),
                         !.status = StatusBadGateway]
        ELSE [out EXCEPT !.forwarded = Append(@, OutRequest(r)),
                         !.status = res.status,
                         !.answer = [res EXCEPT !.header = RemoveHopByHop(@)]]

\* s.issueTokenAndReplay(c, requestID)
issueTokenAndReplay_NoLookup(out, req, requestID, env, t) ==
    replayRequest([out EXCEPT !.setCookie = SessionCookie(NewToken(jwtSigningKey, t))],
                  RebuiltRequest(out.cache[requestID].Object, req), env.upstream)

\* with the entry deleted once it was read
issueTokenAndReplay_Consumes(out, req, requestID, env, t) ==
    LET withCookie == [out EXCEPT !.setCookie = SessionCookie(NewToken(jwtSigningKey, t))]
        got == CacheGet(out.cache, requestID, t)
    IN  IF ~got.ok
        THEN String([withCookie EXCEPT !.path = "MissingEntry"],
                    StatusInternalServerError, "Could not find original request")
        ELSE replayRequest([withCookie EXCEPT !.cache[requestID] = NoItem],
                           RebuiltRequest(got.Object, req), env.upstream)

\* with the cookie set only once the entry was found
issueTokenAndReplay_LookupFirst(out, req, requestID, env, t) ==
    LET got == CacheGet(out.cache, requestID, t)
    IN  IF ~got.ok
        THEN String([out EXCEPT !.path = "MissingEntry"],
                    StatusInternalServerError, "Could not find original request")
        ELSE replayRequest([out EXCEPT !.setCookie = SessionCookie(NewToken(jwtSigningKey, t))],
                           RebuiltRequest(got.Object, req), env.upstream)

issueTokenAndReplay(out, req, requestID, env, t) ==
    LET withCookie == [out EXCEPT !.setCookie = SessionCookie(NewToken(jwtSigningKey, t))]
        got == CacheGet(out.cache, requestID, t)
    IN  IF ~got.ok
        THEN String([withCookie EXCEPT !.path = "MissingEntry"],
                    StatusInternalServerError, "Could not find original request")
        ELSE replayRequest(withCookie, RebuiltRequest(got.Object, req), env.upstream)

\* handleProxy, valid session: log and replay the request as it came
\* with the passed-through request captured as well
Authenticated_Captures(out, req, env, t) ==
    replayRequest(LogRequest([out EXCEPT !.path = "Authenticated",
                                         !.cache = CacheSet(@, "id2", CachedRequest(req, req.body), t)],
                             RequestLog(req, t, TRUE, FALSE, FALSE), env.dbErr),
                  InboundRequest(req), env.upstream)

Authenticated(out, req, env, t) ==
    replayRequest(LogRequest([out EXCEPT !.path = "Authenticated"],
                             RequestLog(req, t, TRUE, FALSE, FALSE), env.dbErr),
                  InboundRequest(req), env.upstream)

\* handleProxy, verification attempt
VerificationSubmission(out, req, env, t) ==
    LET called == [out EXCEPT !.verifyCalls =
                       Append(@, [secret |-> secretKey,
                                  response |-> PostForm(req, "cf-turnstile-response")])]
        result == VerifyResult(env.verify)
    IN  CASE result = "post_error" ->
                String([called EXCEPT !.path = "ProviderError"],
                       StatusInternalServerError, "Failed to verify token")
          [] result = "decode_error" ->
                String([called EXCEPT !.path = "ProviderError"],
                       StatusInternalServerError, "Failed to decode Cloudflare response")
          [] result = "success" ->
                issueTokenAndReplay(
                    LogRequest([called EXCEPT !.path = "VerifiedSuccess"],
                               RequestLog(req, t, FALSE, TRUE, TRUE), env.dbErr),
                    req, PostForm(req, "request_id"), env, t)
          [] OTHER ->
                HTML(LogRequest([called EXCEPT !.path = "VerifiedFailure"],
                                RequestLog(req, t, FALSE, TRUE, FALSE), env.dbErr),
                     StatusUnauthorized, getTemplate(templates, req.url, "failed"), NoData)

\* handleProxy, new request: cache it and serve the challenge
ChallengeIssued_PostActionWithQuery(out, req, env, t) ==
    IF env.readErr
    THEN String([out EXCEPT !.path = "BufferError", !.newID = env.id],
                StatusInternalServerError, "Could not buffer request")
    ELSE HTML([out EXCEPT !.path = "ChallengeIssued", !.newID = env.id,
                          !.cache = CacheSet(@, env.id, CachedRequest(req, RemainingBody(req)), t)],
              StatusOK, getTemplate(templates, req.url, "challenge"),
              [SiteKey |-> siteKey, RequestID |-> env.id,
               PostAction |-> Append(req.url.Path, req.url.RawQuery)])

\* with the entry stored before the body is read
ChallengeIssued_SetBeforeRead(out, req, env, t) ==
    IF env.readErr
    THEN String([out EXCEPT !.path = "BufferError", !.newID = env.id,
                            !.cache = CacheSet(@, env.id, CachedRequest(req, EmptyBody), t)],
                StatusInternalServerError, "Could not buffer request")
    ELSE HTML([out EXCEPT !.path = "ChallengeIssued", !.newID = env.id,
                          !.cache = CacheSet(@, env.id, CachedRequest(req, RemainingBody(req)), t)],
              StatusOK, getTemplate(templates, req.url, "challenge"),
              [SiteKey |-> siteKey, RequestID |-> env.id, PostAction |-> req.url.Path])

ChallengeIssued(out, req, env, t) ==
    IF env.readErr
    THEN String([out EXCEPT !.path = "BufferError", !.newID = env.id],
                StatusInternalServerError, "Could not buffer request")
    ELSE HTML([out EXCEPT !.path = "ChallengeIssued", !.newID = env.id,
                          !.cache = CacheSet(@, env.id, CachedRequest(req, RemainingBody(req)), t)],
              StatusOK, getTemplate(templates, req.url, "challenge"),
              [SiteKey |-> siteKey, RequestID |-> env.id, PostAction |-> req.url.Path])

\* Server.handleProxy on request req, at clock reading t, with cache `cache`
\* with the submission check made before the session check
handleProxy_SubmissionFirst(req, env, cache, t) ==
    IF IsVerification(req)
    THEN VerificationSubmission(NoOutcome(cache), req, env, t)
    ELSE IF HasValidSession(req, t)
         THEN Authenticated(NoOutcome(cache), req, env, t)
         ELSE ChallengeIssued(NoOutcome(cache), req, env, t)

handleProxy(req, env, cache, t) ==
    IF HasValidSession(req, t)
    THEN Authenticated(NoOutcome(cache), req, env, t)
    ELSE IF IsVerification(req)
         THEN VerificationSubmission(NoOutcome(cache), req, env, t)
         ELSE ChallengeIssued(NoOutcome(cache), req, env, t)

\* the answers of the environment that handleProxy consumes on request req,
\* the audit store failing or not as dbs says, the upstream behaving as ups says
ConsumedEnvsWith(req, cache, t, used, dbs, ups) ==
    IF HasValidSession(req, t)
    THEN { [NoEnv EXCEPT !.upstream = u, !.dbErr = d] : u \in ups, d \in dbs }
    ELSE IF IsVerification(req)
         THEN UNION { { [NoEnv EXCEPT !.verify = v, !.upstream = u, !.dbErr = d] :
                          u \in (IF VerifyResult(v) = "success" THEN ups ELSE {"ok"}),
                          d \in (IF VerifyResult(v) \in {"success", "failure"} THEN dbs ELSE {FALSE}) } :
                      v \in VerifyOutcomes }
         ELSE { [NoEnv EXCEPT !.readErr = b, !.id = i] :
                    b \in BOOLEAN, i \in NewRequestIDs(used) }

\* the same with an audit store that takes every record and an upstream that
\* answers or is down
ConsumedEnvs(req, cache, t, used) == ConsumedEnvsWith(req, cache, t, used, {FALSE}, Upstreams)

----------------------------------------------------------------------------
(* The redirect-based variant of the server (cmd/tps): /challenge and /verify *)

\* url.ParseQuery of the raw queries requests carry
QueryValues(raw) ==
    CASE raw = "q=1" -> << <<"q", "1">> >>
      [] raw = "redirect_to=%2Fa%2Fb" -> << <<"redirect_to", "/a/b">> >>
      [] raw = "other=1" -> << <<"other", "1">> >>
      [] OTHER -> <<>>

\* c.Query(key)
Query(req, key) == FirstValue(QueryValues(req.url.RawQuery), key)

\* c.Redirect(code, location)
Redirect(out, code, location) == [out EXCEPT !.status = code, !.location = location]

\* handleChallengePage
handleChallengePage(out, req) ==
    IF Query(req, "redirect_to") = ""
    THEN String([out EXCEPT !.path = "MissingRedirect"], 400,
                "Cannot determine redirect destination after challenge.")
    ELSE HTML([out EXCEPT !.path = "ChallengePage"], StatusOK, <<"challenge.go.html">>,
              [SiteKey |-> siteKey, RedirectURL |-> Query(req, "redirect_to")])

\* issueToken
issueToken(out, redirectTo, t) ==
    Redirect([out EXCEPT !.setCookie = SessionCookie(NewToken(jwtSigningKey, t))],
             302, redirectTo)

\* handleVerify: the part after the two field checks
verifyAndRedirect(out, req, env, t) ==
    LET called == [out EXCEPT !.verifyCalls =
                       Append(@, [secret |-> secretKey,
                                  response |-> PostForm(req, "cf-turnstile-response")])]
        result == VerifyResult(env.verify)
    IN  CASE result = "post_error" ->
                String([called EXCEPT !.path = "ProviderError"],
                       StatusInternalServerError, "Failed to verify token")
          [] result = "decode_error" ->
                String([called EXCEPT !.path = "ProviderError"],
                       StatusInternalServerError, "Failed to decode Cloudflare response")
          [] result = "success" ->
                issueToken([called EXCEPT !.path = "VerifiedSuccess"],
                           PostForm(req, "redirect_to"), t)
          [] OTHER ->
                HTML([called EXCEPT !.path = "VerifiedFailure"],
                     StatusUnauthorized, <<"failed.go.html">>, NoData)

\* handleVerify
handleVerify_NoRedirectCheck(out, req, env, t) ==
    IF PostForm(req, "cf-turnstile-response") = ""
    THEN String([out EXCEPT !.path = "MissingField"], 400,
                "The cf-turnstile-response field is missing.")
    ELSE verifyAndRedirect(out, req, env, t)

handleVerify(out, req, env, t) ==
    IF PostForm(req, "cf-turnstile-response") = ""
    THEN String([out EXCEPT !.path = "MissingField"], 400,
                "The cf-turnstile-response field is missing.")
    ELSE IF PostForm(req, "redirect_to") = ""
         THEN String([out EXCEPT !.path = "MissingField"], 400,
                     "Missing redirect_to in form submission")
         ELSE verifyAndRedirect(out, req, env, t)

\* GET /challenge with and without the redirect_to parameter
ChallengePageRequests ==
    { [method |-> "GET", contentType |-> "", body |-> EmptyBody, cookie |-> NoCookie,
       url |-> [Scheme |-> "", Host |-> "", Path |-> <<"challenge">>, RawQuery |-> q],
       host |-> "tps.x", connection |-> "", forwardedFor |-> <<>>] :
        q \in {"", "other=1", "redirect_to=%2Fa%2Fb"} }

\* POST /verify with each of the two fields present, empty or absent
VerifyRequests ==
    { [method |-> "POST", contentType |-> "form", body |-> b, cookie |-> NoCookie,
       url |-> [Scheme |-> "", Host |-> "", Path |-> <<"verify">>, RawQuery |-> ""],
       host |-> "tps.x", connection |-> "", forwardedFor |-> <<>>] :
        b \in { <<>>,
                << <<"cf-turnstile-response", "proof">> >>,
                << <<"redirect_to", "/a/b">> >>,
                << <<"cf-turnstile-response", "">>, <<"redirect_to", "/a/b">> >>,
                << <<"cf-turnstile-response", "proof">>, <<"redirect_to", "">> >>,
                << <<"cf-turnstile-response", "proof">>, <<"redirect_to", "/a/b">> >>,
                << <<"cf-turnstile-response", "stale">>, <<"redirect_to", "/x">> >> } }

\* requests to the gate that carry a part or the whole of a verification
\* submission, by POST and by PUT
PartialSubmissions ==
    { [method |-> m, contentType |-> "form", body |-> b, cookie |-> c,
       url |-> [Scheme |-> "", Host |-> "", Path |-> <<"a", "b">>, RawQuery |-> ""],
       host |-> "front.x", connection |-> "", forwardedFor |-> <<>>] :
        m \in {"POST", "PUT"},
        b \in { ResponseOnlyBody,
                << <<"request_id", "id1">> >>,
                << <<"cf-turnstile-response", "proof">>, <<"request_id", "">> >>,
                SubmissionBody("id1") },
        c \in {NoCookie, OldToken} }

----------------------------------------------------------------------------
(* The state machine *)

NoRequestIn ==
    [method |-> "", contentType |-> "", body |-> EmptyBody, cookie |-> NoCookie,
     url |-> NoURL, host |-> "", connection |-> "", forwardedFor |-> <<>>]

\* no request is being handled
Idle == [handler |-> "", req |-> NoRequestIn, env |-> NoEnv, at |-> 0,
         before |-> [k \in IDs |-> NoItem],
         issuedBefore |-> {}, out |-> NoOutcome([k \in IDs |-> NoItem])]

\* the goroutines of the step-by-step specifications: two request handlers and
\* the cache's janitor
Handlers == {"h1", "h2"}
Workers == Handlers \cup {"janitor"}

NoGot == [ok |-> FALSE, Object |-> NoRequest]

\* a goroutine that is not running: its position and its local variables
NoWorker ==
    [pc |-> "idle", req |-> NoRequestIn, id |-> "", entry |-> NoRequest, got |-> NoGot,
     status |-> 0, at |-> 0]

Init ==
    /\ now = StartTime
    /\ requestCache = [k \in IDs |-> NoItem]
    /\ nextSweep = StartTime + CleanupInterval
    /\ templates = LoadedTemplates
    /\ issued = {}
    /\ advances = 0
    /\ last = Idle
    /\ workers = [w \in Workers |-> NoWorker]
    /\ puts = [k \in IDs |-> NoRequest]
    /\ sent = [k \in IDs |-> {}]

\* one inbound request out of reqs, handled from its first line to its response
HandleProxyWith(reqs, dbs, ups) ==
    \E req \in reqs :
        \E env \in ConsumedEnvsWith(req, requestCache, now, issued, dbs, ups) :
            LET out == handleProxy(req, env, requestCache, now)
            IN  /\ last = Idle
                /\ requestCache' = out.cache
                /\ issued' = IF env.id # "" THEN issued \cup {env.id} ELSE issued
                /\ last' = [handler |-> "handleProxy", req |-> req, env |-> env, at |-> now,
                             before |-> requestCache, issuedBefore |-> issued, out |-> out]
                /\ UNCHANGED <<now, nextSweep, templates, advances, workers, puts, sent>>

HandleProxyOn(reqs) == HandleProxyWith(reqs, {FALSE}, Upstreams)

HandleProxy == HandleProxyOn(Requests)

\* the handler has returned: the response is with the client and the
\* request's context is dropped
Return ==
    /\ last # Idle
    /\ last' = Idle
    /\ UNCHANGED <<now, requestCache, nextSweep, templates, issued, advances, workers, puts, sent>>

\* time passes
Advance ==
    \E d \in AdvanceSteps :
        /\ last = Idle
        /\ advances < MaxAdvances
        /\ now' = now + d
        /\ advances' = advances + 1
        /\ UNCHANGED <<requestCache, nextSweep, templates, issued, last, workers, puts, sent>>

\* the go-cache janitor fires: every CleanupInterval it deletes expired items
Sweep ==
    /\ last = Idle
    /\ now >= nextSweep
    /\ requestCache' = DeleteExpired(requestCache, now)
    /\ nextSweep' = nextSweep + CleanupInterval
    /\ UNCHANGED <<now, templates, issued, advances, last, workers, puts, sent>>

Next == HandleProxy \/ Return \/ Advance \/ Sweep

Spec == Init /\ [][Next]_vars

\* servers started on each of the template directories, receiving the
\* requests that exercise template resolution
InitTemplates ==
    /\ now = StartTime
    /\ requestCache = [k \in IDs |-> NoItem]
    /\ nextSweep = StartTime + CleanupInterval
    /\ templates \in Registries
    /\ issued = {}
    /\ advances = 0
    /\ last = Idle
    /\ workers = [w \in Workers |-> NoWorker]
    /\ puts = [k \in IDs |-> NoRequest]
    /\ sent = [k \in IDs |-> {}]

HandleTemplateRequest == HandleProxyOn(TemplateRequests)

NextTemplates == HandleTemplateRequest \/ Return \/ Advance \/ Sweep

SpecTemplates == InitTemplates /\ [][NextTemplates]_vars

\* GET /challenge of the redirect-based variant
HandleChallengePage ==
    \E req \in ChallengePageRequests :
        /\ last = Idle
        /\ last' = [handler |-> "handleChallengePage", req |-> req, env |-> NoEnv, at |-> now,
                     before |-> requestCache, issuedBefore |-> issued,
                     out |-> handleChallengePage(NoOutcome(requestCache), req)]
        /\ UNCHANGED <<now, requestCache, nextSweep, templates, issued, advances, workers, puts, sent>>

\* POST /verify of the redirect-based variant; the authority is called only
\* when both fields are there
HandleVerify ==
    \E req \in VerifyRequests :
        \E v \in (IF PostForm(req, "cf-turnstile-response") # "" /\ PostForm(req, "redirect_to") # ""
                   THEN VerifyOutcomes ELSE {NoEnv.verify}) :
            /\ last = Idle
            /\ last' = [handler |-> "handleVerify", req |-> req,
                         env |-> [NoEnv EXCEPT !.verify = v], at |-> now,
                         before |-> requestCache, issuedBefore |-> issued,
                         out |-> handleVerify(NoOutcome(requestCache), req,
                                              [NoEnv EXCEPT !.verify = v], now)]
            /\ UNCHANGED <<now, requestCache, nextSweep, templates, issued, advances, workers, puts, sent>>

\* the gate and the redirect-based variant, receiving requests with missing
\* parameters
HandlePartialSubmission == HandleProxyOn(PartialSubmissions)

NextMalformed ==
    HandlePartialSubmission \/ HandleChallengePage \/ HandleVerify \/ Return \/ Advance \/ Sweep

SpecMalformed == Init /\ [][NextMalformed]_vars

\* the same server in front of an upstream that may also close its connection
HandleReplayRequest == HandleProxyWith(ReplayRequests, {FALSE}, Upstreams \cup {"closing"})

NextReplay == HandleReplayRequest \/ Return \/ Advance \/ Sweep

SpecReplay == Init /\ [][NextReplay]_vars

\* the same server, receiving the requests that exercise the replay target
HandleTargetRequest == HandleProxyOn(TargetRequests)

NextTarget == HandleTargetRequest \/ Return \/ Advance \/ Sweep

SpecTarget == Init /\ [][NextTarget]_vars

\* the same server with two identifiers left to hand out, receiving the
\* requests that exercise the buffering of the body; io.ReadAll fails or not
HandleBufferRequest ==
    \E req \in BufferRequests :
        \E env \in (IF IsVerification(req)
                     THEN ConsumedEnvs(req, requestCache, now, issued)
                     ELSE { [NoEnv EXCEPT !.readErr = b, !.id = i] :
                                b \in BOOLEAN, i \in IDs \ issued }) :
            LET out == handleProxy(req, env, requestCache, now)
            IN  /\ last = Idle
                /\ requestCache' = out.cache
                /\ issued' = IF env.id # "" THEN issued \cup {env.id} ELSE issued
                /\ last' = [handler |-> "handleProxy", req |-> req, env |-> env, at |-> now,
                             before |-> requestCache, issuedBefore |-> issued, out |-> out]
                /\ UNCHANGED <<now, nextSweep, templates, advances, workers, puts, sent>>

NextBuffer == HandleBufferRequest \/ Return \/ Advance \/ Sweep

SpecBuffer == Init /\ [][NextBuffer]_vars

\* the same server, receiving the requests that exercise what the session
\* check reads
HandleClaimsRequest == HandleProxyOn(ClaimsRequests)

NextClaims == HandleClaimsRequest \/ Return \/ Advance \/ Sweep

SpecClaims == Init /\ [][NextClaims]_vars

\* the same server with an audit store that may refuse a record
HandleAuditedRequest == HandleProxyWith(AuditRequests, BOOLEAN, Upstreams)

NextAudit == HandleAuditedRequest \/ Return \/ Advance \/ Sweep

SpecAudit == Init /\ [][NextAudit]_vars

\* the same server, receiving the requests that exercise the session check
HandleSessionRequest == HandleProxyOn(SessionRequests)

NextSession == HandleSessionRequest \/ Return \/ Advance \/ Sweep

SpecSession == Init /\ [][NextSession]_vars

----------------------------------------------------------------------------
(* The handler step by step: concurrent request handlers and the janitor.   *)
(* Each step is one access to the cache or one wait for another party; the  *)
(* cache's RWMutex is held by the goroutine that is inside a write section. *)

\* the requests of the step-by-step specifications: two first contacts (one
\* with a Connection header and a forwarding chain), a verification submission
\* for each identifier, and a request on a valid session
WorkerRequests ==
    { [method |-> "GET", contentType |-> "", body |-> EmptyBody, cookie |-> NoCookie,
       url |-> [Scheme |-> "", Host |-> "", Path |-> <<"a", "b">>, RawQuery |-> "q=1"],
       host |-> "front.x", connection |-> "", forwardedFor |-> <<>>],
      [method |-> "POST", contentType |-> "json", body |-> PayloadBody, cookie |-> NoCookie,
       url |-> [Scheme |-> "", Host |-> "", Path |-> <<"x", "y">>, RawQuery |-> ""],
       host |-> "front.x", connection |-> "keep-alive", forwardedFor |-> <<"203.0.113.9">>],
      [method |-> "GET", contentType |-> "", body |-> EmptyBody, cookie |-> FreshToken,
       url |-> [Scheme |-> "", Host |-> "", Path |-> <<"a", "b">>, RawQuery |-> "q=1"],
       host |-> "front.x", connection |-> "", forwardedFor |-> <<>>] }
    \cup
    { [method |-> "POST", contentType |-> "form", body |-> SubmissionBody(id),
       cookie |-> NoCookie,
       url |-> [Scheme |-> "", Host |-> "", Path |-> <<"a", "b">>, RawQuery |-> ""],
       host |-> "front.x", connection |-> "", forwardedFor |-> <<>>] : id \in IDs }

\* positions at which a goroutine holds the cache's mutex for writing
WriteSection == {"setItem", "sweeping", "deleting"}

\* c.mu.Lock() returns: no other goroutine is inside a section
Lock(ws, w) == \A v \in DOMAIN ws \ {w} : ws[v].pc \notin WriteSection

\* c.mu.RLock() returns: no goroutine is inside a write section
RLock_NoExclusion(ws, w) == TRUE

RLock(ws, w) == \A v \in DOMAIN ws \ {w} : ws[v].pc \notin WriteSection

\* a handler whose response, with this status, is written
Done(status) == [NoWorker EXCEPT !.pc = "done", !.status = status]

\* a handler takes a request: the session check, then the submission check,
\* then requestid.New()
Accept(w) ==
    \E req \in WorkerRequests :
        /\ workers[w].pc = "idle"
        /\ IF HasValidSession(req, now)
           THEN /\ workers' = [workers EXCEPT ![w] =
                        [NoWorker EXCEPT !.pc = "awaitUpstream", !.req = req]]
                /\ UNCHANGED issued
           ELSE IF IsVerification(req)
           THEN /\ workers' = [workers EXCEPT ![w] =
                        [NoWorker EXCEPT !.pc = "awaitVerify", !.req = req,
                                         !.id = PostForm(req, "request_id")]]
                /\ UNCHANGED issued
           ELSE \E i \in IDs \ issued :
                /\ workers' = [workers EXCEPT ![w] =
                        [NoWorker EXCEPT !.pc = "readBody", !.req = req, !.id = i]]
                /\ issued' = issued \cup {i}
        /\ UNCHANGED <<now, requestCache, nextSweep, templates, advances, last, puts, sent>>

\* io.ReadAll(c.Request.Body) and the cachedRequest built from it
ReadBody(w) ==
    \E readErr \in BOOLEAN :
        /\ workers[w].pc = "readBody"
        /\ workers' = [workers EXCEPT ![w] =
              IF readErr
              THEN Done(StatusInternalServerError)
              ELSE [@ EXCEPT !.pc = "set",
                             !.entry = CachedRequest(workers[w].req,
                                                     RemainingBody(workers[w].req))]]
        /\ UNCHANGED <<now, requestCache, nextSweep, templates, issued, advances, last, puts, sent>>

\* requestCache.Set, first half: the mutex is taken and the item's slot written
SetBegin(w) ==
    /\ workers[w].pc = "set"
    /\ Lock(workers, w)
    /\ requestCache' = [requestCache EXCEPT ![workers[w].id] =
            [present |-> TRUE, Object |-> NoRequest, Expiration |-> now + DefaultExpiration]]
    /\ puts' = [puts EXCEPT ![workers[w].id] = workers[w].entry]
    /\ workers' = [workers EXCEPT ![w].pc = "setItem", ![w].at = now]
    /\ UNCHANGED <<now, nextSweep, templates, issued, advances, last, sent>>

\* requestCache.Set, second half: the object written, the mutex released; then
\* the challenge page
SetEnd(w) ==
    /\ workers[w].pc = "setItem"
    /\ requestCache' = CacheSet(requestCache, workers[w].id, workers[w].entry, workers[w].at)
    /\ workers' = [workers EXCEPT ![w] = Done(StatusOK)]
    /\ UNCHANGED <<now, nextSweep, templates, issued, advances, last, puts, sent>>

\* the verification authority answers client.PostForm
VerifyAnswers(w) ==
    \E v \in VerifyOutcomes :
        /\ workers[w].pc = "awaitVerify"
        /\ workers' = [workers EXCEPT ![w] =
              CASE VerifyResult(v) = "success" -> [@ EXCEPT !.pc = "get"]
                [] VerifyResult(v) = "failure" -> Done(StatusUnauthorized)
                [] OTHER -> Done(StatusInternalServerError)]
        /\ UNCHANGED <<now, requestCache, nextSweep, templates, issued, advances, last, puts, sent>>

\* http.Client{Timeout: 10 * time.Second}: the call is given up and
\* client.PostForm returns an error
VerifyTimeout(w) ==
    /\ workers[w].pc = "awaitVerify"
    /\ workers' = [workers EXCEPT ![w] = Done(StatusInternalServerError)]
    /\ UNCHANGED <<now, requestCache, nextSweep, templates, issued, advances, last, puts, sent>>

\* what proxy.ServeHTTP leaves in the header map of the request it is given:
\* it works on outreq, a clone of that request, so the map, which the rebuilt
\* request shares with the entry (req.Header = cachedReq.Headers), stays as it is
ServeHTTPHeader_InPlace(h) == RemoveHopByHop(h)

ServeHTTPHeader(h) == h

\* requestCache.Get under the read lock; when the entry is found, the request
\* rebuilt from it is handed to proxy.ServeHTTP, which sends its copy upstream
Get(w) ==
    LET id == workers[w].id
        got == CacheGet(requestCache, id, now)
    IN  /\ workers[w].pc = "get"
        /\ RLock(workers, w)
        /\ IF got.ok
           THEN /\ workers' = [workers EXCEPT ![w].pc = "awaitUpstream", ![w].got = got]
                /\ requestCache' = [requestCache EXCEPT ![id].Object.Headers = ServeHTTPHeader(@)]
                /\ sent' = [sent EXCEPT ![id] =
                                @ \cup {OutRequest(RebuiltRequest(got.Object, workers[w].req))}]
           ELSE /\ workers' = [workers EXCEPT ![w] = Done(StatusInternalServerError)]
                /\ UNCHANGED <<requestCache, sent>>
        /\ UNCHANGED <<now, nextSweep, templates, issued, advances, last, puts>>

\* the request proxy.ServeHTTP is waiting on: the inbound one on a valid
\* session, the one rebuilt from the entry otherwise
Pending(w) ==
    IF workers[w].got.ok THEN RebuiltRequest(workers[w].got.Object, workers[w].req)
    ELSE InboundRequest(workers[w].req)

\* the upstream answers the round trip of proxy.ServeHTTP, or refuses the
\* connection
UpstreamAnswers(w) ==
    \E u \in Upstreams :
        /\ workers[w].pc = "awaitUpstream"
        /\ workers' = [workers EXCEPT ![w] =
              Done(replayRequest(NoOutcome(requestCache), Pending(w), u).status)]
        /\ UNCHANGED <<now, requestCache, nextSweep, templates, issued, advances, last, puts, sent>>

\* the handler returns
Finish(w) ==
    /\ workers[w].pc = "done"
    /\ workers' = [workers EXCEPT ![w] = NoWorker]
    /\ UNCHANGED <<now, requestCache, nextSweep, templates, issued, advances, last, puts, sent>>

\* the janitor's ticker fires: DeleteExpired takes the mutex and the time
SweepBegin ==
    /\ workers["janitor"].pc = "idle"
    /\ now >= nextSweep
    /\ Lock(workers, "janitor")
    /\ workers' = [workers EXCEPT !["janitor"].pc = "sweeping", !["janitor"].at = now]
    /\ nextSweep' = nextSweep + CleanupInterval
    /\ UNCHANGED <<now, requestCache, templates, issued, advances, last, puts, sent>>

\* DeleteExpired removes one expired item: first half
SweepClear ==
    \E k \in IDs :
        /\ workers["janitor"].pc = "sweeping"
        /\ requestCache[k].present
        /\ workers["janitor"].at > requestCache[k].Expiration
        /\ requestCache' = [requestCache EXCEPT ![k].Object = NoRequest]
        /\ workers' = [workers EXCEPT !["janitor"].pc = "deleting", !["janitor"].id = k]
        /\ UNCHANGED <<now, nextSweep, templates, issued, advances, last, puts, sent>>

\* DeleteExpired removes one expired item: second half
SweepRemove ==
    /\ workers["janitor"].pc = "deleting"
    /\ requestCache' = [requestCache EXCEPT ![workers["janitor"].id] = NoItem]
    /\ workers' = [workers EXCEPT !["janitor"].pc = "sweeping", !["janitor"].id = ""]
    /\ UNCHANGED <<now, nextSweep, templates, issued, advances, last, puts, sent>>

\* DeleteExpired has gone through the items and releases the mutex
SweepEnd ==
    /\ workers["janitor"].pc = "sweeping"
    /\ requestCache = DeleteExpired(requestCache, workers["janitor"].at)
    /\ workers' = [workers EXCEPT !["janitor"] = NoWorker]
    /\ UNCHANGED <<now, requestCache, nextSweep, templates, issued, advances, last, puts, sent>>

\* the entries' lifetime passes
Elapse ==
    /\ advances < MaxAdvances
    /\ now' = now + DefaultExpiration
    /\ advances' = advances + 1
    /\ UNCHANGED <<requestCache, nextSweep, templates, issued, last, workers, puts, sent>>

HandlerStep(w) ==
    \/ Accept(w) \/ ReadBody(w) \/ SetBegin(w) \/ SetEnd(w) \/ VerifyAnswers(w)
    \/ VerifyTimeout(w) \/ Get(w) \/ UpstreamAnswers(w) \/ Finish(w)

JanitorStep == SweepBegin \/ SweepClear \/ SweepRemove \/ SweepEnd

NextWorkers == (\E w \in Handlers : HandlerStep(w)) \/ JanitorStep \/ Elapse

SpecWorkers == Init /\ [][NextWorkers]_vars

\* one handler and the janitor, scheduled fairly: a goroutine that can take its
\* next step takes it, a mutex that keeps becoming free is obtained, and the
\* timer of the verification client fires; the other parties owe no answer
NextHung == HandlerStep("h1") \/ JanitorStep \/ Elapse

Scheduling ==
    /\ WF_vars(ReadBody("h1"))
    /\ SF_vars(SetBegin("h1"))
    /\ WF_vars(SetEnd("h1"))
    /\ WF_vars(VerifyTimeout("h1"))
    /\ SF_vars(Get("h1"))
    /\ WF_vars(JanitorStep)

SpecHung == Init /\ [][NextHung]_vars /\ Scheduling

----------------------------------------------------------------------------
(* Properties.  They are stated over `last`, the execution of handleProxy    *)
(* that has just produced its response, in terms of the request, the         *)
(* environment's answers and the cache, not of the handler's own operators.  *)

Handled == last # Idle

\* the token is an HMAC token signed with the configured key and the clock
\* reading t lies in [nbf, exp)
TokenVerifies(tok, t) ==
    /\ tok.kind = "jwt"
    /\ tok.alg \in {"HS256", "HS384", "HS512"}
    /\ tok.key = jwtSigningKey
    /\ tok.nbf * Second <= t
    /\ t < tok.exp * Second

\* the request carries a tps-jwt cookie that is no valid session token at t
InvalidCookie(req, t) == req.cookie.kind # "none" /\ ~TokenVerifies(req.cookie, t)

\* a form field of the request as a client's form submission carries it
Field(req, key) ==
    IF req.contentType \in {"form", "multipart"} THEN FirstValue(req.body, key) ELSE ""

\* the request is a POST carrying a challenge response and a request_id
Submission(req) ==
    /\ req.method = "POST"
    /\ Field(req, "cf-turnstile-response") # ""
    /\ Field(req, "request_id") # ""

\* the authority was reached and its body says success: true / success: false
AuthorityAnswered(v, body) == v.transport = "ok" /\ v.body = body

\* the cache holds an unexpired entry under id at clock reading t
LiveEntry(cache, id, t) == id \in DOMAIN cache /\ cache[id].present /\ t <= cache[id].Expiration

\* the last request went through the verification-submission branch
LastSubmitted == Handled /\ ~TokenVerifies(last.req.cookie, last.at) /\ Submission(last.req)

\* C1: a request is forwarded to the upstream only if it carries a session
\* cookie that verifies under the signing key, or it is a verification
\* submission that the authority answered with success and the cache holds an
\* entry for the submitted request_id; on the challenge, failed-challenge,
\* provider-error, missing-entry and buffer-error paths nothing is forwarded.
C1_GateSafety ==
    Handled =>
        /\ last.out.forwarded # <<>> =>
              \/ TokenVerifies(last.req.cookie, last.at)
              \/ /\ Submission(last.req)
                 /\ AuthorityAnswered(last.env.verify, "success_true")
                 /\ LiveEntry(last.before, Field(last.req, "request_id"), last.at)
        /\ last.out.path \in {"ChallengeIssued", "VerifiedFailure", "ProviderError",
                              "MissingEntry", "BufferError"} => last.out.forwarded = <<>>

C1_Witness ==
    /\ Handled
    /\ last.out.forwarded # <<>>
    /\ ~TokenVerifies(last.req.cookie, last.at)
    /\ last.out.path = "VerifiedSuccess"

\* C2: a request with a valid, unexpired session cookie is forwarded to the
\* upstream as it came (method, path, query, headers, body), the verification
\* authority is not called, the cache is left as it was and no cookie is set.
C2_ValidSessionPassesThrough ==
    (Handled /\ TokenVerifies(last.req.cookie, last.at)) =>
        /\ Len(last.out.forwarded) = 1
        /\ last.out.forwarded[1].Method = last.req.method
        /\ last.out.forwarded[1].URL.Path = last.req.url.Path
        /\ last.out.forwarded[1].URL.RawQuery = last.req.url.RawQuery
        /\ last.out.forwarded[1].Header.ContentType = last.req.contentType
        /\ last.out.forwarded[1].Header.Cookie = last.req.cookie
        /\ last.out.forwarded[1].Body = last.req.body
        /\ last.out.verifyCalls = <<>>
        /\ requestCache = last.before
        /\ issued = last.issuedBefore
        /\ last.out.setCookie = NoSetCookie

C2_Witness ==
    /\ Handled
    /\ TokenVerifies(last.req.cookie, last.at)
    /\ Submission(last.req)
    /\ last.out.path = "Authenticated"
    /\ last.out.answer.status # 0

\* C3: between two requests, a request with a malformed, wrongly signed,
\* wrong-algorithm or expired tps-jwt cookie is answered exactly as the same
\* request without the cookie: same branch, status, page, page data, text,
\* cookie, calls to the authority and forwarded request.
C3_InvalidCookieAsNoCookie ==
    last = Idle =>
        \A req \in Requests :
            InvalidCookie(req, now) =>
                LET bare == [req EXCEPT !.cookie = NoCookie]
                IN  \A env \in ConsumedEnvs(bare, requestCache, now, issued) :
                        LET a == handleProxy(req, env, requestCache, now)
                            b == handleProxy(bare, env, requestCache, now)
                        IN  [a EXCEPT !.cache = b.cache] = b

C3_Witness ==
    /\ Handled
    /\ last.req.cookie = OldToken
    /\ last.out.path = "ChallengeIssued"
    /\ last.out.status = 200
    /\ last.out.forwarded = <<>>

\* the pending entry a verification submission names, as the cache held it
\* when the submission arrived
NamedEntry == last.before[Field(last.req, "request_id")].Object

Resolved(host, path, shortname) ==
    LET hits == { i \in 0..Len(path) :
                    (<<host>> \o SubSeq(path, 1, i) \o <<shortname>>) \in templates }
    IN  IF hits = {} THEN <<"core", shortname>>
        ELSE <<host>> \o SubSeq(path, 1, CHOOSE i \in hits : \A j \in hits : j <= i)
                      \o <<shortname>>

ProviderFailed(v) == v.transport = "error" \/ (v.transport = "ok" /\ v.body = "garbage")

\* C6: when the call to the authority fails at the transport layer or its
\* body cannot be decoded, the response is a 500 without a page: not the 401,
\* not the failed template, no session cookie, nothing forwarded.
C6_ProviderFailureIsInternalError ==
    (LastSubmitted /\ ProviderFailed(last.env.verify)) =>
        /\ last.out.status = 500
        /\ last.out.page = <<>>
        /\ last.out.setCookie = NoSetCookie
        /\ last.out.forwarded = <<>>

C6_Witness ==
    /\ LastSubmitted
    /\ last.env.verify.transport = "ok"
    /\ last.env.verify.body = "garbage"
    /\ last.out.status = 500

\* C7 (as claimed): a non-2xx status from the authority is surfaced as a
\* provider failure whatever the body says: a 500 without a page, no session
\* cookie, nothing forwarded.
C7_Non2xxIsProviderFailure ==
    (/\ LastSubmitted
     /\ last.env.verify.transport = "ok"
     /\ ~(last.env.verify.status \in 200..299)) =>
        /\ last.out.status = 500
        /\ last.out.page = <<>>
        /\ last.out.setCookie = NoSetCookie
        /\ last.out.forwarded = <<>>

\* C8: a submission the authority answers with success whose request_id has no
\* live entry in the cache (never stored, or expired) gets a 500 and nothing
\* is forwarded to the upstream.
C8_MissingEntryIsInternalError ==
    (/\ LastSubmitted
     /\ AuthorityAnswered(last.env.verify, "success_true")
     /\ ~LiveEntry(last.before, Field(last.req, "request_id"), last.at)) =>
        /\ last.out.status = 500
        /\ last.out.page = <<>>
        /\ last.out.forwarded = <<>>
        /\ last.out.answer = NoAnswer

\* reached with an entry that is still in the cache but past its expiration
C8_Witness ==
    /\ LastSubmitted
    /\ AuthorityAnswered(last.env.verify, "success_true")
    /\ last.before[Field(last.req, "request_id")].present
    /\ last.at > last.before[Field(last.req, "request_id")].Expiration
    /\ last.out.status = 500

\* the last request took neither the valid-session nor the submission branch
\* and its body was read
LastCaptured ==
    /\ Handled
    /\ ~TokenVerifies(last.req.cookie, last.at)
    /\ ~Submission(last.req)
    /\ ~last.env.readErr

\* C9 (as claimed): the pending entry stored for an unauthenticated request
\* that is no verification submission holds exactly the method, the full body,
\* the headers and the URL the client sent.
C9_CapturedVerbatim ==
    LastCaptured =>
        /\ requestCache[last.out.newID].present
        /\ requestCache[last.out.newID].Object.Method = last.req.method
        /\ requestCache[last.out.newID].Object.Body = last.req.body
        /\ requestCache[last.out.newID].Object.Headers.ContentType = last.req.contentType
        /\ requestCache[last.out.newID].Object.Headers.Cookie = last.req.cookie
        /\ requestCache[last.out.newID].Object.URL = last.req.url

\* C10: a request with no session cookie and no verification fields, its body
\* read, gets the challenge page with status 200 carrying an identifier that
\* was not handed out before, and right after the response the cache returns
\* the entry stored under that identifier.
C10_ChallengeIssuedAndRetrievable ==
    (/\ LastCaptured
     /\ last.req.cookie.kind = "none"
     /\ FirstValue(last.req.body, "cf-turnstile-response") = ""
     /\ FirstValue(last.req.body, "request_id") = "") =>
        /\ last.out.status = 200
        /\ last.out.page = Resolved(last.req.url.Host, last.req.url.Path, "challenge")
        /\ last.out.data.RequestID = last.out.newID
        /\ last.out.newID \in IDs \ last.issuedBefore
        /\ ~last.before[last.out.newID].present
        /\ LiveEntry(requestCache, last.out.newID, now)
        /\ requestCache[last.out.newID].Object.Method = last.req.method
        /\ requestCache[last.out.newID].Object.URL = last.req.url

C10_Witness ==
    /\ LastCaptured
    /\ last.req.cookie.kind = "none"
    /\ last.req.method = "GET"
    /\ last.out.status = 200
    /\ last.out.page = <<"core", "challenge">>
    /\ last.out.data.RequestID = "id1"
    /\ requestCache["id1"].present

----------------------------------------------------------------------------
(* The pending-request cache over time *)

\* the submission is answered with success and names an entry the cache holds
\* (expired or not)
LookupOfStored ==
    /\ LastSubmitted
    /\ AuthorityAnswered(last.env.verify, "success_true")
    /\ last.before[Field(last.req, "request_id")].present

\* the request sent upstream is the one held in entry e (scheme and host are
\* the director's)
ReplaysEntry(e) ==
    /\ Len(last.out.forwarded) = 1
    /\ last.out.forwarded[1].Method = e.Method
    /\ last.out.forwarded[1].Body = e.Body
    /\ last.out.forwarded[1].Header.ContentType = e.Headers.ContentType
    /\ last.out.forwarded[1].Header.Cookie = e.Headers.Cookie
    /\ last.out.forwarded[1].Header.XForwardedFor = e.Headers.XForwardedFor
    /\ last.out.forwarded[1].URL.Path = e.URL.Path
    /\ last.out.forwarded[1].URL.RawQuery = e.URL.RawQuery

\* C11 (as claimed): every lookup made at or after t + 5 minutes of an entry
\* stored at t reports missing (500, nothing replayed).
C11_MissingFromDeadline ==
    (LookupOfStored
     /\ last.at >= last.before[Field(last.req, "request_id")].Expiration) =>
        /\ last.out.status = 500
        /\ last.out.forwarded = <<>>

\* C11 (amended): an entry stored at time t expires at t + 5 minutes; a lookup
\* made at any time up to and including t + 5 minutes returns it with the
\* method, body, headers and URL it was stored with, a lookup made after
\* t + 5 minutes reports missing, swept or not; an entry is never changed
\* while it is in the cache and it leaves the cache only past its expiration.
C11_EntryLifetime ==
    /\ [](/\ (LastCaptured =>
                requestCache[last.out.newID].Expiration = last.at + 5 * 60 * TicksPerSecond)
          /\ (LookupOfStored =>
                IF last.at <= last.before[Field(last.req, "request_id")].Expiration
                THEN ReplaysEntry(NamedEntry)
                ELSE /\ last.out.status = 500
                     /\ last.out.text = "Could not find original request"
                     /\ last.out.forwarded = <<>>))
    /\ [][\A k \in IDs :
            (requestCache[k].present /\ requestCache'[k] # requestCache[k]) =>
                /\ now > requestCache[k].Expiration
                /\ ~requestCache'[k].present]_vars

\* a lookup at exactly t + 5 minutes that found the entry
C11_Witness ==
    /\ LookupOfStored
    /\ last.at = last.before[Field(last.req, "request_id")].Expiration
    /\ ReplaysEntry(NamedEntry)
    /\ last.out.status \in {200, 201}

----------------------------------------------------------------------------
(* The session check *)

\* the last request was treated as unauthenticated: it got a response from
\* the submission or the challenge branch and no valid-token audit record
Unauthenticated ==
    /\ last.out.path \in {"ChallengeIssued", "BufferError", "ProviderError",
                          "VerifiedSuccess", "VerifiedFailure", "MissingEntry"}
    /\ last.out.status # 0
    /\ \A i \in 1..Len(last.out.audit) : ~last.out.audit[i].HadValidToken

\* C12: the session check accepts every HMAC token signed with the configured
\* key at every time in [nbf, exp), and treats the request as unauthenticated,
\* with an ordinary response, for a malformed cookie, a tampered signature, a
\* different key, a non-HMAC algorithm, a time before nbf and a time at or
\* after exp.
C12_SessionVerification ==
    Handled =>
        LET tok == last.req.cookie
            t == last.at
        IN  /\ (/\ tok.kind = "jwt"
                /\ tok.alg \in {"HS256", "HS384", "HS512"}
                /\ tok.key = "signing-key"
                /\ tok.nbf * TicksPerSecond <= t
                /\ t < tok.exp * TicksPerSecond) => last.out.path = "Authenticated"
            /\ (tok.kind = "garbage" => Unauthenticated)
            /\ (tok.kind = "jwt" /\ tok.key # "signing-key" => Unauthenticated)
            /\ (tok.kind = "jwt" /\ ~(tok.alg \in {"HS256", "HS384", "HS512"}) => Unauthenticated)
            /\ (tok.kind = "jwt" /\ t < tok.nbf * TicksPerSecond => Unauthenticated)
            /\ (tok.kind = "jwt" /\ t >= tok.exp * TicksPerSecond => Unauthenticated)

\* a token presented at the very instant of its exp is refused, and the
\* request gets the challenge
C12_Witness ==
    /\ Handled
    /\ last.req.cookie = EdgeToken
    /\ last.at = EdgeToken.exp * TicksPerSecond
    /\ last.out.path = "ChallengeIssued"
    /\ last.out.status = 200

\* the token has the shape of the tokens the server issues
ServerIssued(tok) ==
    /\ tok.kind = "jwt"
    /\ tok.alg = "HS256"
    /\ tok.key = "signing-key"
    /\ tok.iss = "tps"
    /\ tok.aud = "caddy"
    /\ tok.nbf = tok.iat
    /\ tok.exp = tok.iat + 24 * 3600

\* the clock readings at which the server issues exactly the token tok: those
\* of the second tok.iat
IssueTimes(tok) == (tok.iat * TicksPerSecond) .. (tok.iat * TicksPerSecond + TicksPerSecond - 1)

\* a successful verification at clock reading last.at hands out the token of
\* that second
IssuesTokenOfNow ==
    (Handled /\ last.out.setCookie # NoSetCookie) =>
        /\ ServerIssued(last.out.setCookie.value)
        /\ last.at \in IssueTimes(last.out.setCookie.value)

\* C13 (as claimed): a token issued at time t is accepted by the session check
\* at every time in [t, t + 24h) and rejected at every time after t + 24h.
C13_RoundTripFullDay ==
    /\ IssuesTokenOfNow
    /\ (Handled /\ ServerIssued(last.req.cookie)) =>
          \A t \in IssueTimes(last.req.cookie) :
              /\ (t <= last.at /\ last.at < t + 24 * 3600 * TicksPerSecond) =>
                    last.out.path = "Authenticated"
              /\ last.at > t + 24 * 3600 * TicksPerSecond => Unauthenticated

\* C13 (amended): a token issued at time t is accepted by the session check at
\* every time in [t, t + 24h - 1s] and rejected at every time at or after
\* t + 24h (exp is t + 24h cut down to a whole second).
C13_RoundTrip ==
    /\ IssuesTokenOfNow
    /\ (Handled /\ ServerIssued(last.req.cookie)) =>
          \A t \in IssueTimes(last.req.cookie) :
              /\ (t <= last.at /\ last.at <= t + (24 * 3600 - 1) * TicksPerSecond) =>
                    last.out.path = "Authenticated"
              /\ last.at >= t + 24 * 3600 * TicksPerSecond => Unauthenticated

\* a token in the last five minutes of its life is presented and accepted
C13_Witness ==
    /\ Handled
    /\ last.req.cookie = EdgeToken
    /\ last.at < EdgeToken.exp * TicksPerSecond
    /\ last.at > EdgeToken.exp * TicksPerSecond - 5 * 60 * TicksPerSecond
    /\ last.out.path = "Authenticated"
    /\ last.out.status \in {200, 201}

----------------------------------------------------------------------------
(* Template resolution *)

RECURSIVE Segments(_, _)
\* the segments of a rooted path once empty, "." and ".." segments are
\* resolved, read from its end; skip counts the ".." still to be applied
Segments(path, skip) ==
    IF path = <<>> THEN <<>>
    ELSE LET h == path[Len(path)]
             rest == SubSeq(path, 1, Len(path) - 1)
         IN  IF h \in {"", "."} THEN Segments(rest, skip)
             ELSE IF h = ".." THEN Segments(rest, skip + 1)
             ELSE IF skip > 0 THEN Segments(rest, skip - 1)
             ELSE Append(Segments(rest, 0), h)

\* the page rendered for the last request, when it rendered one
RenderedAs(shortname) ==
    /\ Handled
    /\ last.out.path = (IF shortname = "challenge" THEN "ChallengeIssued" ELSE "VerifiedFailure")

\* C14: the challenge and the failed page are resolved by longest prefix: the
\* name returned is <host>/<prefix>/<name> for the longest leading sequence of
\* the (cleaned) path's segments that has a registered override under the
\* URL's host, the empty prefix being the host-level override, and
\* core/<name> when no prefix has one; some name is always returned.
C14_LongestPrefix ==
    \A shortname \in {"challenge", "failed"} :
        RenderedAs(shortname) =>
            LET host == last.req.url.Host
                segs == Segments(last.req.url.Path, 0)
                hits == { i \in 0..Len(segs) :
                            (<<host>> \o SubSeq(segs, 1, i) \o <<shortname>>) \in templates }
            IN  /\ Len(last.out.page) >= 2
                /\ hits = {} => last.out.page = <<"core", shortname>>
                /\ \A i \in hits :
                      (\A j \in hits : j <= i) =>
                          last.out.page = <<host>> \o SubSeq(segs, 1, i) \o <<shortname>>

\* overrides registered at front.x/a and front.x/a/b: the challenge for
\* front.x/a/b/c is the one of front.x/a/b
C14_Witness ==
    /\ RenderedAs("challenge")
    /\ <<"front.x", "a", "challenge">> \in templates
    /\ <<"front.x", "a", "b", "challenge">> \in templates
    /\ last.req.url.Host = "front.x"
    /\ last.req.url.Path = <<"a", "b", "c">>
    /\ last.out.page = <<"front.x", "a", "b", "challenge">>

\* C15 (as claimed): the challenge and the failed page are resolved under the
\* public host the request was addressed to (its Host), so a request to a host
\* with a registered override gets that override; the proxy target's host is
\* never the lookup host.
C15_KeyedByPublicHost ==
    \A shortname \in {"challenge", "failed"} :
        RenderedAs(shortname) =>
            /\ last.out.page = Resolved(last.req.host, Segments(last.req.url.Path, 0), shortname)
            /\ last.out.page[1] # "backend.x"

----------------------------------------------------------------------------
(* The audit log *)

\* the audit records of the last request are exactly one record with the flags
AuditIs(hadValidToken, wasPresentedChallenge, challengeSucceeded) ==
    /\ Len(last.out.audit) = 1
    /\ last.out.audit[1].HadValidToken = hadValidToken
    /\ last.out.audit[1].WasPresentedChallenge = wasPresentedChallenge
    /\ last.out.audit[1].ChallengeSucceeded = challengeSucceeded
    /\ last.out.audit[1].Timestamp = last.at

\* C16: a request passed on a valid session emits exactly one audit record
\* with hadValidToken alone set, a submission the authority answers with
\* success exactly one with wasPresentedChallenge and challengeSucceeded set,
\* one it answers with failure exactly one with wasPresentedChallenge alone
\* set; no request emits more than one record.
C16_OneAuditRecord ==
    Handled =>
        /\ Len(last.out.audit) <= 1
        /\ TokenVerifies(last.req.cookie, last.at) => AuditIs(TRUE, FALSE, FALSE)
        /\ (LastSubmitted /\ AuthorityAnswered(last.env.verify, "success_true")) =>
              AuditIs(FALSE, TRUE, TRUE)
        /\ (LastSubmitted /\ AuthorityAnswered(last.env.verify, "success_false")) =>
              AuditIs(FALSE, TRUE, FALSE)

C16_Witness ==
    /\ LastSubmitted
    /\ AuthorityAnswered(last.env.verify, "success_true")
    /\ AuditIs(FALSE, TRUE, TRUE)
    /\ last.out.stored = last.out.audit
    /\ last.out.forwarded # <<>>

\* what the client and the upstream see of an execution of the handler, and
\* the cache it leaves
Visible(out) ==
    [status |-> out.status, page |-> out.page, data |-> out.data, text |-> out.text,
     setCookie |-> out.setCookie, forwarded |-> out.forwarded, answer |-> out.answer,
     verifyCalls |-> out.verifyCalls, cache |-> out.cache]

\* C17: a request whose audit record the store refuses is answered exactly as
\* the same request would be with the store taking the record (status, page,
\* text, cookie, forwarded request, upstream answer, cache); the failure shows
\* only in the local log.
C17_AuditBestEffort ==
    (Handled /\ last.env.dbErr) =>
        /\ Visible(last.out) =
              Visible(handleProxy(last.req, [last.env EXCEPT !.dbErr = FALSE],
                                  last.before, last.at))
        /\ last.out.audit # <<>> =>
              /\ last.out.stored = <<>>
              /\ last.out.errorLog # <<>>

C17_Witness ==
    /\ Handled
    /\ last.env.dbErr
    /\ TokenVerifies(last.req.cookie, last.at)
    /\ last.out.stored = <<>>
    /\ last.out.errorLog # <<>>
    /\ last.out.status = 200
    /\ Len(last.out.forwarded) = 1

----------------------------------------------------------------------------
(* Missing parameters *)

\* the gate handled a POST without a valid session that carries a challenge
\* response and no request_id
ResponseWithoutRequestID ==
    /\ Handled
    /\ last.handler = "handleProxy"
    /\ ~TokenVerifies(last.req.cookie, last.at)
    /\ last.req.method = "POST"
    /\ Field(last.req, "cf-turnstile-response") # ""
    /\ Field(last.req, "request_id") = ""

\* the redirect-based variant handled a request without its redirect_to, or a
\* verification POST without its challenge response
RedirectVariantMalformed ==
    /\ Handled
    /\ \/ /\ last.handler = "handleVerify"
          /\ \/ Field(last.req, "redirect_to") = ""
             \/ Field(last.req, "cf-turnstile-response") = ""
       \/ /\ last.handler = "handleChallengePage"
          /\ last.req.url.RawQuery \in {"", "other=1"}

\* the response is a 400 with a plain message and nothing else happened
ClientError ==
    /\ last.out.status = 400
    /\ last.out.text # ""
    /\ last.out.page = <<>>
    /\ last.out.setCookie = NoSetCookie
    /\ last.out.verifyCalls = <<>>
    /\ last.out.forwarded = <<>>

\* C18 (as claimed): a POST with a challenge response and no request_id (the
\* gate), or without redirect_to (the redirect-based variant), is answered
\* with status 400 and a plain message.
C18_MissingParameterIs400 ==
    /\ ResponseWithoutRequestID => ClientError
    /\ RedirectVariantMalformed => ClientError

\* C18 (amended): only the redirect-based variant answers a missing parameter
\* with status 400 and a plain message; the gate treats a POST with a
\* challenge response and no request_id as a new request: its body read, it is
\* captured and answered with the challenge page.
C18_MissingParameter ==
    /\ RedirectVariantMalformed => ClientError
    /\ (ResponseWithoutRequestID /\ ~last.env.readErr) =>
          /\ last.out.status = 200
          /\ last.out.page = Resolved(last.req.url.Host, Segments(last.req.url.Path, 0), "challenge")
          /\ last.out.text = ""
          /\ LiveEntry(requestCache, last.out.newID, now)
          /\ last.out.data.RequestID = last.out.newID

C18_Witness ==
    /\ Handled
    /\ last.handler = "handleVerify"
    /\ Field(last.req, "cf-turnstile-response") = "proof"
    /\ Field(last.req, "redirect_to") = ""
    /\ last.out.status = 400
    /\ last.out.text = "Missing redirect_to in form submission"

----------------------------------------------------------------------------
(* Replays and the pending entry *)

\* a submission the authority answered with success, naming a live entry
ReplayedLive ==
    /\ LastSubmitted
    /\ AuthorityAnswered(last.env.verify, "success_true")
    /\ LiveEntry(last.before, Field(last.req, "request_id"), last.at)

----------------------------------------------------------------------------
(* The replay *)

\* the request handed to the replay by the last execution: the inbound request
\* on a valid session, the request rebuilt from the named entry otherwise
ReplayInput ==
    IF TokenVerifies(last.req.cookie, last.at)
    THEN [Method |-> last.req.method, URL |-> last.req.url, Body |-> last.req.body,
          ContentType |-> last.req.contentType, Cookie |-> last.req.cookie,
          Connection |-> last.req.connection, XForwardedFor |-> last.req.forwardedFor]
    ELSE [Method |-> NamedEntry.Method, URL |-> NamedEntry.URL, Body |-> NamedEntry.Body,
          ContentType |-> NamedEntry.Headers.ContentType, Cookie |-> NamedEntry.Headers.Cookie,
          Connection |-> NamedEntry.Headers.Connection,
          XForwardedFor |-> NamedEntry.Headers.XForwardedFor]

\* the last execution sent a request upstream
Replayed == Handled /\ last.handler = "handleProxy" /\ last.out.forwarded # <<>>

\* the answer the upstream gave to the request it received
UpstreamGave ==
    IF last.env.upstream = "closing" THEN UpstreamAnswerClosing(last.out.forwarded[1])
    ELSE UpstreamAnswer(last.out.forwarded[1])

\* scheme and host are the proxy target's; method, path, query and body are the
\* input's
SameRequestLine ==
    /\ Len(last.out.forwarded) = 1
    /\ last.out.forwarded[1].URL.Scheme = "http"
    /\ last.out.forwarded[1].URL.Host = "backend.x"
    /\ last.out.forwarded[1].Host = "backend.x"
    /\ last.out.forwarded[1].Method = ReplayInput.Method
    /\ last.out.forwarded[1].URL.Path = ReplayInput.URL.Path
    /\ last.out.forwarded[1].URL.RawQuery = ReplayInput.URL.RawQuery
    /\ last.out.forwarded[1].Body = ReplayInput.Body

\* C20 (as claimed): the request sent upstream has the input's method, path,
\* query, body and all of its headers, and the client gets the upstream's
\* status, headers and body as the upstream gave them.
C20_OnlySchemeAndHostDiffer ==
    Replayed =>
        /\ SameRequestLine
        /\ last.out.forwarded[1].Header =
              [ContentType |-> ReplayInput.ContentType, Cookie |-> ReplayInput.Cookie,
               Connection |-> ReplayInput.Connection,
               XForwardedFor |-> ReplayInput.XForwardedFor]
        /\ last.env.upstream # "down" =>
              /\ last.out.status = UpstreamGave.status
              /\ last.out.answer = UpstreamGave

\* C20 (amended): the request sent upstream has the input's method, path,
\* query, body and end-to-end headers; hop-by-hop headers are removed and, on
\* the passthrough of an inbound request, the client's address is appended to
\* X-Forwarded-For; the client gets the status, end-to-end headers and body
\* the upstream gave, without the hop-by-hop headers.
C20_ReplayFrame ==
    Replayed =>
        /\ SameRequestLine
        /\ last.out.forwarded[1].Header.ContentType = ReplayInput.ContentType
        /\ last.out.forwarded[1].Header.Cookie = ReplayInput.Cookie
        /\ last.out.forwarded[1].Header.Connection = ""
        /\ last.out.forwarded[1].Header.XForwardedFor =
              (IF TokenVerifies(last.req.cookie, last.at)
               THEN ReplayInput.XForwardedFor \o <<"198.51.100.7">>
               ELSE ReplayInput.XForwardedFor)
        /\ last.env.upstream # "down" =>
              /\ last.out.status = UpstreamGave.status
              /\ last.out.answer.status = UpstreamGave.status
              /\ last.out.answer.body = UpstreamGave.body
              /\ last.out.answer.header.ContentType = UpstreamGave.header.ContentType
              /\ last.out.answer.header.Connection = ""

\* a captured request with a Connection header and a forwarding chain is
\* replayed to an upstream that closes its connection
C20_Witness ==
    /\ Replayed
    /\ ~TokenVerifies(last.req.cookie, last.at)
    /\ NamedEntry.Headers.Connection = "keep-alive"
    /\ NamedEntry.Headers.XForwardedFor = <<"203.0.113.9">>
    /\ NamedEntry.Method = "POST"
    /\ last.env.upstream = "closing"
    /\ last.out.forwarded[1].Header.Connection = ""
    /\ last.out.forwarded[1].URL.RawQuery = "q=1"
    /\ last.out.answer.header.Connection = ""
    /\ last.out.status = 201

----------------------------------------------------------------------------
(* The challenge page and the session cookie *)

\* the last execution of the gate answered with the challenge page
ChallengeServed ==
    /\ Handled
    /\ last.handler = "handleProxy"
    /\ last.out.status = 200
    /\ last.out.forwarded = <<>>
    /\ last.out.page # <<>>

\* C23: the challenge page is rendered with exactly three values: the
\* configured site key, the identifier under which this same request was just
\* cached, and a post-action target equal to the path of the request.
C23_ChallengePageData ==
    ChallengeServed =>
        /\ DOMAIN last.out.data = {"SiteKey", "RequestID", "PostAction"}
        /\ last.out.data.SiteKey = "1x00000000000000000000AA"
        /\ last.out.data.RequestID \in IDs
        /\ ~last.before[last.out.data.RequestID].present
        /\ requestCache[last.out.data.RequestID].present
        /\ requestCache[last.out.data.RequestID].Object.Method = last.req.method
        /\ requestCache[last.out.data.RequestID].Object.URL = last.req.url
        /\ requestCache[last.out.data.RequestID].Object.Headers.Cookie = last.req.cookie
        /\ last.out.data.PostAction = last.req.url.Path

\* a POST to /a/b?q=1 got the challenge page
C23_Witness ==
    /\ ChallengeServed
    /\ last.req.method = "POST"
    /\ last.req.url.RawQuery = "q=1"
    /\ last.out.data.PostAction = <<"a", "b">>
    /\ last.out.data.RequestID = "id1"
    /\ requestCache["id1"].Object.URL.RawQuery = "q=1"

\* the last execution of the gate put a Set-Cookie header on its response
CookieSet == Handled /\ last.handler = "handleProxy" /\ last.out.setCookie.name # ""

\* C24: every session cookie the gate sets is named tps-jwt, is HTTP-only and
\* secure, has path / and a max-age of 24 hours, which is the lifetime of the
\* token, and its value is the session token signed during this execution.
C24_SessionCookieAttributes ==
    (Handled /\ last.handler = "handleProxy" /\ last.out.setCookie # NoSetCookie) =>
        /\ last.out.setCookie.name = "tps-jwt"
        /\ last.out.setCookie.httpOnly
        /\ last.out.setCookie.secure
        /\ last.out.setCookie.path = "/"
        /\ last.out.setCookie.maxAge = 24 * 60 * 60
        /\ last.out.setCookie.value.exp - last.out.setCookie.value.iat = last.out.setCookie.maxAge
        /\ last.out.setCookie.value.kind = "jwt"
        /\ last.out.setCookie.value.alg = "HS256"
        /\ last.out.setCookie.value.key = jwtSigningKey
        /\ last.out.setCookie.value.iat = last.at \div TicksPerSecond
        /\ last.out.setCookie.value.nbf = last.at \div TicksPerSecond
        /\ TokenVerifies(last.out.setCookie.value, last.at)

\* a cookie was set on a replayed submission, at a clock reading between two
\* whole seconds
C24_Witness ==
    /\ CookieSet
    /\ last.out.forwarded # <<>>
    /\ last.at % TicksPerSecond # 0
    /\ last.out.setCookie.value # FreshToken

----------------------------------------------------------------------------
(* Classification of unauthenticated requests *)

\* the last execution of the gate was on a request without a valid session
GateUnauthenticated ==
    Handled /\ last.handler = "handleProxy" /\ ~TokenVerifies(last.req.cookie, last.at)

\* C25: an unauthenticated request is handled as a verification submission
\* (the authority is called, nothing is captured) if and only if its method is
\* POST and cf-turnstile-response and request_id are both non-empty; every
\* other unauthenticated request, its body read, is captured into the cache
\* and answered with the challenge page.
C25_Classification ==
    GateUnauthenticated =>
        /\ (last.out.verifyCalls # <<>>) <=>
              (/\ last.req.method = "POST"
               /\ Field(last.req, "cf-turnstile-response") # ""
               /\ Field(last.req, "request_id") # "")
        /\ last.out.verifyCalls # <<>> => (requestCache = last.before /\ last.out.newID = "")
        /\ (last.out.verifyCalls = <<>> /\ ~last.env.readErr) =>
              /\ last.out.status = 200
              /\ last.out.page = Resolved(last.req.url.Host, Segments(last.req.url.Path, 0), "challenge")
              /\ last.out.data.RequestID = last.out.newID
              /\ ~last.before[last.out.newID].present
              /\ LiveEntry(requestCache, last.out.newID, now)
              /\ requestCache[last.out.newID].Object.Method = last.req.method
              /\ requestCache[last.out.newID].Object.URL = last.req.url

\* a PUT carrying both fields was captured and answered with the challenge
C25_Witness ==
    /\ GateUnauthenticated
    /\ last.req.method = "PUT"
    /\ Field(last.req, "cf-turnstile-response") # ""
    /\ Field(last.req, "request_id") # ""
    /\ last.out.status = 200
    /\ requestCache[last.out.newID].Object.Method = "PUT"

----------------------------------------------------------------------------
(* Outbound calls *)

\* C26: handling one inbound request makes at most one call to the
\* verification authority and at most one upstream forward; the authority is
\* called only for an unauthenticated verification submission; a failed call
\* to the authority is answered with 500 and nothing is forwarded, a failed
\* forward is answered with 502, and neither is tried again.
C26_NoRetries ==
    (Handled /\ last.handler = "handleProxy") =>
        /\ Len(last.out.verifyCalls) <= 1
        /\ Len(last.out.forwarded) <= 1
        /\ last.out.verifyCalls # <<>> =>
              (~TokenVerifies(last.req.cookie, last.at) /\ Submission(last.req))
        /\ (last.out.verifyCalls # <<>> /\ ProviderFailed(last.env.verify)) =>
              /\ last.out.status = 500
              /\ last.out.forwarded = <<>>
              /\ last.out.setCookie = NoSetCookie
        /\ (last.out.forwarded # <<>> /\ last.env.upstream = "down") =>
              /\ last.out.status = 502
              /\ last.out.answer = NoAnswer

\* a verified submission whose replay found the upstream down
C26_Witness ==
    /\ LastSubmitted
    /\ Len(last.out.verifyCalls) = 1
    /\ Len(last.out.forwarded) = 1
    /\ last.env.upstream = "down"
    /\ last.out.status = 502

----------------------------------------------------------------------------
(* Shared state *)

\* the identifiers whose cache item differs between two caches
Changed(c1, c2) == { k \in IDs : c1[k] # c2[k] }

\* C27: of the gate's executions only the one that answers with the challenge
\* writes the pending-request cache, and it adds exactly one entry; a
\* passed-through request, every outcome of a verification submission
\* (success, failure, provider error, missing entry) and a failed body read
\* leave the cache as it was; the template index stays as it was loaded.
C27_SharedStateFrame ==
    /\ templates = LoadedTemplates
    /\ (Handled /\ last.handler = "handleProxy") =>
          /\ ChallengeServed =>
                /\ Cardinality(Changed(last.before, requestCache)) = 1
                /\ \A k \in Changed(last.before, requestCache) :
                      ~last.before[k].present /\ requestCache[k].present
                /\ \A k \in IDs : last.before[k].present => requestCache[k] = last.before[k]
          /\ ~ChallengeServed => requestCache = last.before
          /\ (TokenVerifies(last.req.cookie, last.at) \/ Submission(last.req)) =>
                requestCache = last.before

\* every outcome that must leave the cache alone has been seen with an entry
\* in the cache: here, a successful replay
C27_Witness ==
    /\ ReplayedLive
    /\ last.out.forwarded # <<>>
    /\ \E k \in IDs : last.before[k].present
    /\ requestCache = last.before

----------------------------------------------------------------------------
(* Order of the steps of a verified submission *)

\* a submission the authority answered with success
VerifiedSubmission ==
    /\ LastSubmitted
    /\ last.handler = "handleProxy"
    /\ AuthorityAnswered(last.env.verify, "success_true")

\* C28: whenever the authority reports success the response carries a session
\* cookie that is valid from that moment and the challenge-succeeded audit
\* record is written, whether or not the request_id names a live entry: a
\* successful submission whose request_id is missing from the cache gets the
\* cookie together with the 500 response.
C28_CookieBeforeLookup ==
    VerifiedSubmission =>
        /\ last.out.setCookie.name = "tps-jwt"
        /\ TokenVerifies(last.out.setCookie.value, last.at)
        /\ AuditIs(FALSE, TRUE, TRUE)
        /\ ~LiveEntry(last.before, Field(last.req, "request_id"), last.at) =>
              /\ last.out.status = 500
              /\ last.out.text = "Could not find original request"
              /\ last.out.forwarded = <<>>

\* a verified submission naming an identifier the cache never held
C28_Witness ==
    /\ VerifiedSubmission
    /\ Field(last.req, "request_id") = "id2"
    /\ ~last.before["id2"].present
    /\ last.out.status = 500
    /\ last.out.setCookie.value.iat = last.at \div TicksPerSecond

----------------------------------------------------------------------------
(* Order of the session check and the submission check *)

\* the last request is a verification submission sent with a valid session
SubmissionOnSession ==
    /\ Handled
    /\ last.handler = "handleProxy"
    /\ TokenVerifies(last.req.cookie, last.at)
    /\ Submission(last.req)

\* C29: a POST that carries a valid session cookie together with
\* cf-turnstile-response and request_id is forwarded to the upstream as it
\* came, form fields in its body included; the authority is not called, the
\* entry named by request_id is not what is sent, and no cookie is set.
C29_SessionCheckFirst ==
    SubmissionOnSession =>
        /\ Len(last.out.forwarded) = 1
        /\ last.out.forwarded[1].Method = "POST"
        /\ last.out.forwarded[1].URL.Path = last.req.url.Path
        /\ last.out.forwarded[1].URL.RawQuery = last.req.url.RawQuery
        /\ last.out.forwarded[1].Body = last.req.body
        /\ FirstValue(last.out.forwarded[1].Body, "request_id") = Field(last.req, "request_id")
        /\ last.out.forwarded[1].Header.Cookie = last.req.cookie
        /\ last.out.verifyCalls = <<>>
        /\ last.out.setCookie = NoSetCookie
        /\ last.out.status \in {201, 502}
        /\ AuditIs(TRUE, FALSE, FALSE)
        /\ requestCache = last.before

\* such a POST named a live entry that holds another request
C29_Witness ==
    /\ SubmissionOnSession
    /\ LiveEntry(last.before, Field(last.req, "request_id"), last.at)
    /\ NamedEntry.Method = "GET"
    /\ last.out.forwarded[1].Method = "POST"
    /\ last.out.status = 201

----------------------------------------------------------------------------
(* The replay target *)

\* C30 (as claimed): after a successful verification the upstream receives the
\* method and the URL of the pending entry, path and query string, whatever
\* path the verification POST was sent to.
C30_ReplaysCapturedURL ==
    (ReplayedLive /\ last.handler = "handleProxy") =>
        /\ Len(last.out.forwarded) = 1
        /\ last.out.forwarded[1].Method = NamedEntry.Method
        /\ last.out.forwarded[1].URL.Path = NamedEntry.URL.Path
        /\ last.out.forwarded[1].URL.RawQuery = NamedEntry.URL.RawQuery

----------------------------------------------------------------------------
(* Concurrent access to the cache *)

\* C21: in every interleaving of the steps of concurrent handlers and of the
\* janitor, a lookup that finds an item returns exactly the object that was
\* handed to Set under the identifier looked up, whole, and an item that no
\* goroutine is writing holds exactly the object stored under its identifier.
C21_LookupReturnsStoredEntry ==
    /\ \A w \in Handlers :
          workers[w].got.ok =>
              /\ puts[workers[w].id] # NoRequest
              /\ workers[w].got.Object = puts[workers[w].id]
    /\ (\A v \in Workers : workers[v].pc \notin {"setItem", "sweeping", "deleting"}) =>
          \A k \in IDs : requestCache[k].present =>
              (puts[k] # NoRequest /\ requestCache[k].Object = puts[k])

\* a lookup found its entry while the other handler was inside Set for the
\* other identifier, the two entries holding different requests
C21_Witness ==
    /\ workers["h1"].got.ok
    /\ workers["h1"].got.Object = puts[workers["h1"].id]
    /\ workers["h2"].pc = "setItem"
    /\ workers["h2"].id # workers["h1"].id
    /\ puts["id1"] # NoRequest
    /\ puts["id2"] # NoRequest
    /\ puts["id1"] # puts["id2"]

----------------------------------------------------------------------------
(* Termination of a request *)

\* C22 (as claimed): every request a handler has taken gets its response,
\* whatever the verification authority and the upstream do.
C22_EveryRequestAnswered ==
    (workers["h1"].pc # "idle") ~> (workers["h1"].pc = "done")

----------------------------------------------------------------------------
(* Failure to buffer the body *)

\* C31: when io.ReadAll of the body of an unauthenticated request that is no
\* verification submission returns an error, the response is 500 "Could not
\* buffer request", no page is rendered, nothing is sent to the authority or
\* the upstream, the cache is as it was before the request, and the
\* identifier that was generated for the request names no entry.
C31_BufferFailure ==
    (GateUnauthenticated /\ ~Submission(last.req) /\ last.env.readErr) =>
        /\ last.out.status = 500
        /\ last.out.text = "Could not buffer request"
        /\ last.out.page = <<>>
        /\ last.out.data = NoData
        /\ last.out.forwarded = <<>>
        /\ last.out.verifyCalls = <<>>
        /\ last.out.setCookie = NoSetCookie
        /\ requestCache = last.before
        /\ last.env.id \in issued \ last.issuedBefore
        /\ ~requestCache[last.env.id].present

\* the read of a non-empty body failed while the cache held the entry of an
\* earlier request: that entry is still there, the new identifier has none
C31_Witness ==
    /\ GateUnauthenticated
    /\ ~Submission(last.req)
    /\ last.env.readErr
    /\ last.req.body # EmptyBody
    /\ \E k \in IDs \ {last.env.id} : last.before[k].present /\ requestCache[k] = last.before[k]
    /\ last.out.status = 500

----------------------------------------------------------------------------
(* Replays of one entry *)

\* C32: whatever number of replays of an identifier has been made, one after
\* the other or by handlers running at the same time, the entry in the cache
\* is the object that was stored (method, body, headers and URL), every
\* handler that looked it up holds that object, and all the replays of the
\* identifier sent one and the same request upstream: the stored method, body
\* and end-to-end headers, on the proxy target.
C32_ReplayLeavesEntry ==
    \A k \in IDs :
        /\ (requestCache[k].present /\ requestCache[k].Object # NoRequest) =>
              /\ requestCache[k].Object.Method = puts[k].Method
              /\ requestCache[k].Object.Body = puts[k].Body
              /\ requestCache[k].Object.Headers = puts[k].Headers
              /\ requestCache[k].Object.URL = puts[k].URL
        /\ \A w \in Handlers :
              (workers[w].got.ok /\ workers[w].id = k) => workers[w].got.Object = puts[k]
        /\ Cardinality(sent[k]) <= 1
        /\ \A r \in sent[k] :
              /\ puts[k] # NoRequest
              /\ r.Method = puts[k].Method
              /\ r.Body = puts[k].Body
              /\ r.Header.ContentType = puts[k].Headers.ContentType
              /\ r.Header.Cookie = puts[k].Headers.Cookie
              /\ r.Header.XForwardedFor = puts[k].Headers.XForwardedFor
              /\ r.URL.Scheme = proxyTarget.Scheme
              /\ r.URL.Host = proxyTarget.Host

\* two handlers have replayed the same entry and wait for the upstream at the
\* same time; the entry, with its Connection header, is in the cache as it was
\* stored, and the one request that was sent has no Connection header
C32_Witness ==
    \E k \in IDs :
        /\ \A w \in Handlers :
              /\ workers[w].pc = "awaitUpstream"
              /\ workers[w].got.ok
              /\ workers[w].id = k
        /\ puts[k].Headers.Connection = "keep-alive"
        /\ requestCache[k].present
        /\ requestCache[k].Object = puts[k]
        /\ Cardinality(sent[k]) = 1
        /\ \A r \in sent[k] : r.Header.Connection = "" /\ r.Method = "POST"

----------------------------------------------------------------------------
(* What the session check reads *)

\* C33: a request is passed through as authenticated if and only if its cookie
\* is a token of an HMAC algorithm (HS256, HS384 or HS512) whose signature
\* verifies under the configured key and the clock reading lies in [nbf, exp);
\* the issuer, the audience and iat play no part: with any other issuer and
\* audience in the same token the check gives the same result.
C33_SessionCheckInputs ==
    (Handled /\ last.handler = "handleProxy") =>
        LET tok == last.req.cookie
            t == last.at
            accepted == last.out.path = "Authenticated" /\ last.out.forwarded # <<>>
        IN  /\ accepted <=>
                  /\ tok.kind = "jwt"
                  /\ tok.alg \in {"HS256", "HS384", "HS512"}
                  /\ tok.key = "signing-key"
                  /\ tok.nbf * TicksPerSecond <= t
                  /\ t < tok.exp * TicksPerSecond
            /\ \A p \in ClaimPairs :
                  HasValidSession([last.req EXCEPT !.cookie.iss = p[1], !.cookie.aud = p[2]], t)
                      <=> accepted
            /\ ~accepted => Unauthenticated

\* an HS512 token with another issuer and another audience, signed with the
\* configured key, passed the check and the request went upstream
C33_Witness ==
    /\ Handled
    /\ last.handler = "handleProxy"
    /\ last.req.cookie.alg = "HS512"
    /\ last.req.cookie.iss = "evil"
    /\ last.req.cookie.aud = "other"
    /\ last.out.path = "Authenticated"
    /\ Len(last.out.forwarded) = 1
    /\ last.out.status \in {200, 201}

====
